---- MODULE Spec2Model ----
(***************************************************************************)
(* A model of php-lsp: the workspace index (php-lsp-index/workspace.rs),   *)
(* the rope + tree parser (php-lsp-parser/parser.rs) and the document      *)
(* synchronisation handlers of the server (php-lsp-server/server.rs).      *)
(*                                                                         *)
(* Names are token sequences: the FQN "A" is <<"A">>, the member FQN       *)
(* "A::m" is <<"A", "::", "m">> and the property FQN "A::$m" is            *)
(* <<"A", "::", "$", "m">>, so that splitting and prefixing are computed   *)
(* rather than assumed.  Option<T> is a sequence of length 0 or 1.         *)
(***************************************************************************)
EXTENDS Integers, Sequences, FiniteSets, TLC

VARIABLES
    types,          \* WorkspaceIndex.types:        FQN -> SymbolInfo
    functions,      \* WorkspaceIndex.functions:    FQN -> SymbolInfo
    constants,      \* WorkspaceIndex.constants:    FQN -> SymbolInfo
    file_symbols,   \* WorkspaceIndex.file_symbols: URI -> FileSymbols
    last_call,      \* the last index mutation: its name, URI and the digest it replaced
    rm_pc,          \* resolve_fqn call: "idle", "running" or "done"
    rm_query,       \* its fqn argument
    rm_ord,         \* the iteration order of file_symbols during the call
    rm_stack,       \* the frames of resolve_member_in_hierarchy, innermost last
    rm_visited,     \* the visited list shared by the frames
    rm_ret,         \* the value the last finished frame (or the call) returned
    rm_calls,       \* how many times resolve_member_in_hierarchy was entered
    rm_revisit,     \* whether the visited check has cut a call short
    gm_type,        \* get_members call: its type_fqn argument, None before any call
    gm_members,     \* the Vec it returned
    rope,           \* FileParser.rope: the buffer, a sequence of characters
    tree,           \* FileParser.tree: None, or the text it was parsed from and its accuracy
    replay,         \* the same edits replayed on a fresh rope
    panicked,       \* whether a call on the FileParser has panicked
    last_edit,      \* the offsets the last apply_edit computed
    open_files,     \* PhpLspBackend.open_files: URI -> the version of the text its parser holds
    guard,          \* the handler that holds open_files.get_mut's guard, or None
    handlers,       \* the notification handlers in flight: kind, position, locals
    sent,           \* how many notifications the editor has sent for the document
    scan,           \* the background task spawned by initialized: its position
    last_pub,       \* the last client.publish_diagnostics, or None
    editor,         \* the editor's view of the document: unopened, open or closed
    scan_pc,        \* index_workspace: where the spawned task is
    scan_i,         \* index_workspace: the loop index i
    permits,        \* index_workspace: permits available in the semaphore
    indexed,        \* index_workspace: the AtomicUsize counting processed files
    ongoing,        \* index_workspace: whether the client accepted the progress token
    shutdown_requested, \* the shutdown request has been answered
    yielded,        \* the scan has gone through a suspension point since shutdown
    disk,           \* the files on disk that no editor buffer shadows: URI -> text
    request,        \* the references request in flight, or None
    reply,          \* the reply to the last request
    applied,        \* the rename the editor has applied, or None
    workspace_root, \* PhpLspBackend.workspace_root: None before initialize
    namespace_map,  \* PhpLspBackend.namespace_map: the PSR-4 and PSR-0 lists, or None
    filesystem,     \* the files below the root and what the vendor directory holds
    lazy,           \* the last resolve_fqn_lazy call: its argument and its result
    updating,       \* per calling thread: where its update_file call stands
    read_guards,    \* who holds a read guard on the document's slot of open_files
    transport_full, \* whether the queue to the editor holds a message
    server_thread,  \* the server task: polling, or where its handler stands
    suspended,      \* the handlers suspended in their publish await
    received,       \* how many messages of the editor the server has taken
    evaluated       \* the last call of a function of the parser crate: arguments, result

ivars == <<types, functions, constants, file_symbols, last_call>>

rvars == <<rm_pc, rm_query, rm_ord, rm_stack, rm_visited, rm_ret, rm_calls, rm_revisit>>

gvars == <<gm_type, gm_members>>

pvars == <<rope, tree, replay, panicked, last_edit>>

svars == <<open_files, guard, handlers, sent, scan, last_pub, editor>>

wvars == <<scan_pc, scan_i, permits, indexed, ongoing, shutdown_requested, yielded>>

qvars == <<disk, request, reply, applied>>

lvars == <<workspace_root, namespace_map, filesystem, lazy>>

uvars == <<updating>>

kvars == <<read_guards, transport_full, server_thread, suspended, received>>

evars == <<evaluated>>

vars == <<ivars, rvars, gvars, pvars, svars, wvars, qvars, lvars, uvars, kvars, evars>>

(* what the index and its resolver leave alone, and what get_members does *)
outside_index == <<gvars, pvars, svars, wvars, qvars, lvars, uvars, kvars, evars>>

outside_members == <<rvars, pvars, svars, wvars, qvars, lvars, uvars, kvars, evars>>

outside_parser == <<ivars, rvars, gvars, svars, wvars, qvars, lvars, uvars, kvars, evars>>

outside_server == <<last_call, rvars, gvars, pvars, wvars, qvars, lvars, uvars, kvars, evars>>

outside_scan == <<last_call, rvars, gvars, pvars, svars, qvars, lvars, uvars, kvars, evars>>

outside_requests ==
    <<last_call, rvars, gvars, pvars, wvars, guard, handlers, sent, scan, editor, lvars,
      uvars, kvars, evars>>

outside_lazy == <<last_call, rvars, gvars, pvars, svars, wvars, qvars, uvars, kvars, evars>>

outside_update == <<rvars, gvars, pvars, svars, wvars, qvars, lvars, kvars, evars>>

outside_guards ==
    <<ivars, rvars, gvars, pvars, wvars, qvars, lvars, uvars, guard, handlers, sent, last_pub,
      editor, evars>>

outside_evaluated == <<ivars, rvars, gvars, pvars, svars, wvars, qvars, lvars, uvars, kvars>>

----------------------------------------------------------------------------
(* Option<T> *)

None == <<>>

Some(x) == <<x>>

IsSome(o) == o # None

Unwrap(o) == o[1]

(* Sequence helpers *)

Contains(s, x) == \E i \in 1..Len(s) : s[i] = x

Range(s) == {s[i] : i \in 1..Len(s)}

SeqsUpTo(S, n) == UNION {[1..k -> S] : k \in 0..n}

Perms(S) == {p \in [1..Cardinality(S) -> S] : Range(p) = S}

(* Map helpers: a DashMap is a function whose domain is its key set *)

EmptyMap == [k \in {} |-> k]

MapInsert(m, k, v) == [x \in (DOMAIN m) \cup {k} |-> IF x = k THEN v ELSE m[x]]

MapRemove(m, k) == [x \in (DOMAIN m) \ {k} |-> m[x]]

----------------------------------------------------------------------------
(* Bounds and universes *)

NumNames == 2

AllNames == <<"A", "B", "C", "D">>

ClassNames == {AllNames[i] : i \in 1..NumNames}

MemberName == "m"

Uris == {"file:///u1.php", "file:///u2.php"}

TypeKinds == {"Class", "Interface", "Trait", "Enum"}

----------------------------------------------------------------------------
(* Symbols, as the extractor emits them *)

SymbolInfo(name, fqn, kind, uri, line, parent, ext, impl) ==
    [name |-> name, fqn |-> fqn, kind |-> kind, uri |-> uri, line |-> line,
     parent_fqn |-> parent, extends |-> ext, implements |-> impl]

make_fqn(name) == <<name>>

(* A declaration of a source file: a class-like (with its parents and its  *)
(* members), a function or a global constant.                              *)
ClassDecl(kind, n, ext, impl, members) ==
    [decl |-> kind, n |-> n, ext |-> ext, impl |-> impl, members |-> members]

SimpleDecl(kind, n) == ClassDecl(kind, n, <<>>, <<>>, <<>>)

MemberSymbol(mkind, parent, uri, line) ==
    IF mkind = "Property"
    THEN SymbolInfo(<<MemberName>>, parent \o <<"::", "$", MemberName>>, "Property",
                    uri, line, Some(parent), <<>>, <<>>)
    ELSE SymbolInfo(<<MemberName>>, parent \o <<"::", MemberName>>, mkind,
                    uri, line, Some(parent), <<>>, <<>>)

extract_class_body(members, parent, uri, line) ==
    [i \in 1..Len(members) |-> MemberSymbol(members[i], parent, uri, line + i)]

extract_from_node(d, uri, line) ==
    IF d.decl \in TypeKinds
    THEN <<SymbolInfo(<<d.n>>, make_fqn(d.n), d.decl, uri, line, None, d.ext, d.impl)>>
         \o extract_class_body(d.members, make_fqn(d.n), uri, line)
    ELSE <<SymbolInfo(<<d.n>>, make_fqn(d.n), d.decl, uri, line, None, <<>>, <<>>)>>

RECURSIVE extract_children(_, _, _)
extract_children(decls, uri, line) ==
    IF decls = <<>> THEN <<>>
    ELSE LET syms == extract_from_node(Head(decls), uri, line)
         IN  syms \o extract_children(Tail(decls), uri, line + Len(syms))

extract_file_symbols(decls, uri) == [symbols |-> extract_children(decls, uri, 1)]

----------------------------------------------------------------------------
(* WorkspaceIndex: the four maps as one record *)

Index(t, f, c, fs) == [types |-> t, functions |-> f, constants |-> c, file_symbols |-> fs]

new == Index(EmptyMap, EmptyMap, EmptyMap, EmptyMap)

(* remove_symbol with the Function arm lost: functions are never removed *)
remove_symbol_keeps_functions(ix, sym) ==
    IF sym.kind \in TypeKinds
    THEN [ix EXCEPT !.types = MapRemove(@, sym.fqn)]
    ELSE IF sym.kind = "GlobalConstant"
    THEN [ix EXCEPT !.constants = MapRemove(@, sym.fqn)]
    ELSE ix

remove_symbol(ix, sym) ==
    IF sym.kind \in TypeKinds
    THEN [ix EXCEPT !.types = MapRemove(@, sym.fqn)]
    ELSE IF sym.kind = "Function"
    THEN [ix EXCEPT !.functions = MapRemove(@, sym.fqn)]
    ELSE IF sym.kind = "GlobalConstant"
    THEN [ix EXCEPT !.constants = MapRemove(@, sym.fqn)]
    ELSE ix

insert_symbol(ix, sym) ==
    IF sym.kind \in TypeKinds
    THEN [ix EXCEPT !.types = MapInsert(@, sym.fqn, sym)]
    ELSE IF sym.kind = "Function"
    THEN [ix EXCEPT !.functions = MapInsert(@, sym.fqn, sym)]
    ELSE IF sym.kind = "GlobalConstant"
    THEN [ix EXCEPT !.constants = MapInsert(@, sym.fqn, sym)]
    ELSE ix

RECURSIVE remove_symbols(_, _)
remove_symbols(ix, syms) ==
    IF syms = <<>> THEN ix
    ELSE remove_symbols(remove_symbol(ix, Head(syms)), Tail(syms))

RECURSIVE insert_symbols(_, _)
insert_symbols(ix, syms) ==
    IF syms = <<>> THEN ix
    ELSE insert_symbols(insert_symbol(ix, Head(syms)), Tail(syms))

remove_file(ix, uri) ==
    IF uri \in DOMAIN ix.file_symbols
    THEN remove_symbols([ix EXCEPT !.file_symbols = MapRemove(@, uri)],
                        ix.file_symbols[uri].symbols)
    ELSE ix

update_file(ix, uri, fs) ==
    LET removed  == remove_file(ix, uri)
        inserted == insert_symbols(removed, fs.symbols)
    IN  [inserted EXCEPT !.file_symbols = MapInsert(@, uri, fs)]

(* rsplit_once("::"): the class FQN and the member name, or None *)
rsplit_once(fqn) ==
    LET seps == {i \in 1..Len(fqn) : fqn[i] = "::"}
    IN  IF seps = {} THEN None
        ELSE LET i == CHOOSE k \in seps : \A j \in seps : j <= k
             IN  Some(<<SubSeq(fqn, 1, i - 1), SubSeq(fqn, i + 1, Len(fqn))>>)

(* get_direct_members iterates file_symbols in the map's iteration order,  *)
(* which DashMap leaves unspecified: ord is one order of the stored URIs.  *)
RECURSIVE get_direct_members(_, _, _)
get_direct_members(ix, type_fqn, ord) ==
    IF ord = <<>> THEN <<>>
    ELSE SelectSeq(ix.file_symbols[Head(ord)].symbols,
                   LAMBDA sym : sym.parent_fqn = Some(type_fqn))
         \o get_direct_members(ix, type_fqn, Tail(ord))

IterOrders(ix) == Perms(DOMAIN ix.file_symbols)

find_fqn(members, fqn) ==
    LET hits == {i \in 1..Len(members) : members[i].fqn = fqn}
    IN  IF hits = {} THEN None
        ELSE Some(members[CHOOSE i \in hits : \A j \in hits : i <= j])

find_name(members, name) ==
    LET hits == {i \in 1..Len(members) : members[i].name = name}
    IN  IF hits = {} THEN None
        ELSE Some(members[CHOOSE i \in hits : \A j \in hits : i <= j])

(* the visited check without its test: no class counts as visited *)
never_visited(visited, class_fqn) == FALSE

already_visited(visited, class_fqn) == Contains(visited, class_fqn)

(* resolve_member_in_hierarchy: the result and the visited list it leaves *)
RECURSIVE resolve_member_in_hierarchy(_, _, _, _, _, _)
RECURSIVE resolve_in_parents(_, _, _, _, _, _)
resolve_member_in_hierarchy(ix, class_fqn, member_name, original_fqn, visited, ord) ==
    IF already_visited(visited, class_fqn) THEN [ret |-> None, visited |-> visited]
    ELSE
      LET v1      == Append(visited, class_fqn)
          members == get_direct_members(ix, class_fqn, ord)
          exact   == find_fqn(members, original_fqn)
          byname  == find_name(members, member_name)
      IN  IF IsSome(exact) THEN [ret |-> exact, visited |-> v1]
          ELSE IF IsSome(byname) THEN [ret |-> byname, visited |-> v1]
          ELSE IF class_fqn \in DOMAIN ix.types
          THEN LET class_sym == ix.types[class_fqn]
                   up == resolve_in_parents(ix, class_sym.extends, member_name,
                                            original_fqn, v1, ord)
               IN  IF IsSome(up.ret) THEN up
                   ELSE resolve_in_parents(ix, class_sym.implements, member_name,
                                           original_fqn, up.visited, ord)
          ELSE [ret |-> None, visited |-> v1]

resolve_in_parents(ix, parents, member_name, original_fqn, visited, ord) ==
    IF parents = <<>> THEN [ret |-> None, visited |-> visited]
    ELSE LET r == resolve_member_in_hierarchy(ix, Head(parents), member_name,
                                              original_fqn, visited, ord)
         IN  IF IsSome(r.ret) THEN r
             ELSE resolve_in_parents(ix, Tail(parents), member_name, original_fqn,
                                     r.visited, ord)

resolve_member(ix, fqn, ord) ==
    LET split == rsplit_once(fqn)
    IN  IF split = None THEN None
        ELSE resolve_member_in_hierarchy(ix, Unwrap(split)[1], Unwrap(split)[2],
                                         fqn, <<>>, ord).ret

resolve_fqn(ix, fqn, ord) ==
    IF fqn \in DOMAIN ix.types THEN Some(ix.types[fqn])
    ELSE IF fqn \in DOMAIN ix.functions THEN Some(ix.functions[fqn])
    ELSE IF fqn \in DOMAIN ix.constants THEN Some(ix.constants[fqn])
    ELSE resolve_member(ix, fqn, ord)

(* collect_members_recursive: the members and the visited list it leaves *)
RECURSIVE collect_members_recursive(_, _, _, _, _)
RECURSIVE collect_from_parents(_, _, _, _, _)
collect_members_recursive(ix, type_fqn, members, visited, ord) ==
    IF already_visited(visited, type_fqn) THEN [members |-> members, visited |-> visited]
    ELSE
      LET v1 == Append(visited, type_fqn)
          m1 == members \o get_direct_members(ix, type_fqn, ord)
      IN  IF type_fqn \in DOMAIN ix.types
          THEN LET class_sym == ix.types[type_fqn]
                   up == collect_from_parents(ix, class_sym.extends, m1, v1, ord)
               IN  collect_from_parents(ix, class_sym.implements, up.members,
                                        up.visited, ord)
          ELSE [members |-> m1, visited |-> v1]

collect_from_parents(ix, parents, members, visited, ord) ==
    IF parents = <<>> THEN [members |-> members, visited |-> visited]
    ELSE LET r == collect_members_recursive(ix, Head(parents), members, visited, ord)
         IN  collect_from_parents(ix, Tail(parents), r.members, r.visited, ord)

get_members(ix, type_fqn, ord) ==
    collect_members_recursive(ix, type_fqn, <<>>, <<>>, ord).members

----------------------------------------------------------------------------
(* The source files the index is fed: the empty file, every file of one    *)
(* declaration (a class with one parent at most and one member at most, a  *)
(* function, a global constant), and the files of two member-less          *)
(* declarations of one name (a class and a function of the same name, a    *)
(* name declared twice as in a conditional declaration).                   *)

ParentLists == {<<>>} \cup {<<make_fqn(n)>> : n \in ClassNames}

MemberLists == {<<>>, <<"Method">>, <<"Property">>}

ClassDecls ==
    {ClassDecl("Class", n, e, <<>>, ms) :
        n \in ClassNames, e \in ParentLists, ms \in MemberLists}
    \cup {ClassDecl("Class", n, <<>>, i, <<>>) : n \in ClassNames, i \in ParentLists}

SimpleDecls ==
    {SimpleDecl(k, n) : k \in {"Class", "Function", "GlobalConstant"}, n \in ClassNames}

TwoDecls ==
    {q \in SimpleDecls \X SimpleDecls :
        q[1].n = q[2].n /\ {q[1].decl, q[2].decl} \subseteq {"Class", "Function"}}

SourceFiles ==
    {<<>>} \cup {<<d>> : d \in ClassDecls \cup SimpleDecls}
           \cup {<<q[1], q[2]>> : q \in TwoDecls}

----------------------------------------------------------------------------
(* The index as a state machine: any sequence of update_file / remove_file *)

cur == Index(types, functions, constants, file_symbols)

SetIndex(ix) ==
    /\ types' = ix.types
    /\ functions' = ix.functions
    /\ constants' = ix.constants
    /\ file_symbols' = ix.file_symbols

OldDigest(uri) ==
    IF uri \in DOMAIN file_symbols THEN Some(file_symbols[uri]) ELSE None

InitIndex ==
    /\ types = EmptyMap
    /\ functions = EmptyMap
    /\ constants = EmptyMap
    /\ file_symbols = EmptyMap
    /\ last_call = [op |-> "new", uri |-> "", old |-> None]

UpdateFile(uri, src) ==
    /\ SetIndex(update_file(cur, uri, extract_file_symbols(src, uri)))
    /\ last_call' = [op |-> "update_file", uri |-> uri, old |-> None]
    /\ UNCHANGED <<rvars, outside_index>>

RemoveFile(uri) ==
    /\ SetIndex(remove_file(cur, uri))
    /\ last_call' = [op |-> "remove_file", uri |-> uri, old |-> OldDigest(uri)]
    /\ UNCHANGED <<rvars, outside_index>>

InitResolve ==
    /\ rm_pc = "idle"
    /\ rm_query = <<>>
    /\ rm_ord = <<>>
    /\ rm_stack = <<>>
    /\ rm_visited = <<>>
    /\ rm_ret = None
    /\ rm_calls = 0
    /\ rm_revisit = FALSE

InitMembers ==
    /\ gm_type = None
    /\ gm_members = <<>>

NoEdit == [op |-> "new", start_byte |-> 0, old_end_byte |-> 0, len_bytes |-> 0,
           start_beyond |-> FALSE, end_beyond |-> FALSE]

InitParser ==
    /\ rope = <<>>
    /\ tree = None
    /\ replay = <<>>
    /\ panicked = FALSE
    /\ last_edit = NoEdit

Handlers == {"h1", "h2"}

IdleHandler == [kind |-> "none", pc |-> "idle", version |-> 0, found_open |-> FALSE,
                digest |-> None, diagnostics |-> None, log |-> <<>>]

InitServer ==
    /\ open_files = EmptyMap
    /\ guard = None
    /\ handlers = [h \in Handlers |-> IdleHandler]
    /\ sent = 0
    /\ scan = "not_started"
    /\ last_pub = None
    /\ editor = "unopened"

Library == "file:///u2.php"

Node(kind, text) == [node |-> kind, text |-> text]

LibClass == <<"Lib", "\\", "x">>

(* the library file: namespace Lib; class x {} *)
LibraryText == [namespace |-> Some(<<"Lib">>), use_statements |-> <<>>,
                nodes |-> <<Node("class_declaration", <<"x">>)>>]

(* the reply to a request: Ok(Some(..)) is "ok", Ok(None) is "null" *)
Reply(op, status) ==
    [op |-> op, status |-> status, edits |-> <<>>, locations |-> <<>>,
     cursor |-> 0, new_name |-> <<>>, cancelled |-> FALSE]

NoReply == Reply("none", "none")

InitRequests ==
    /\ disk = MapInsert(EmptyMap, Library, LibraryText)
    /\ request = None
    /\ reply = NoReply
    /\ applied = None

InitLazy ==
    /\ workspace_root = None
    /\ namespace_map = None
    /\ filesystem = [files |-> EmptyMap, vendor |-> None]
    /\ lazy = [fqn |-> <<>>, paths |-> <<>>, missed |-> FALSE, ret |-> None]

InitUpdate ==
    updating = [t \in {"did_change", "scan"} |->
                   [pc |-> "idle", i |-> 1, old |-> <<>>, digest |-> [symbols |-> <<>>]]]

InitGuards ==
    /\ read_guards = {}
    /\ transport_full = FALSE
    /\ server_thread = [at |-> "poll", job |-> "none"]
    /\ suspended = {}
    /\ received = 0

InitScan ==
    /\ scan_pc = "not_spawned"
    /\ scan_i = 0
    /\ permits = 0
    /\ indexed = 0
    /\ ongoing = FALSE
    /\ shutdown_requested = FALSE
    /\ yielded = FALSE

Init ==
    /\ InitIndex /\ InitResolve /\ InitMembers /\ InitParser /\ InitServer /\ InitScan
    /\ InitRequests
    /\ InitLazy
    /\ InitUpdate
    /\ InitGuards
    /\ evaluated = [op |-> "none"]

Next ==
    \/ \E uri \in Uris, src \in SourceFiles : UpdateFile(uri, src)
    \/ \E uri \in Uris : RemoveFile(uri)

Spec == Init /\ [][Next]_vars

----------------------------------------------------------------------------
(* resolve_fqn as a step machine: each entry of resolve_member_in_hierarchy *)
(* is a frame, each loop iteration and each return a step, so that whether  *)
(* the walk ends is a property of the behaviours, not of an operator.       *)

(* a class with any extends and implements, or a class with a method and  *)
(* any extends                                                            *)
HierarchyDecls ==
    {ClassDecl("Class", n, e, i, <<>>) : n \in ClassNames, e \in ParentLists, i \in ParentLists}
    \cup {ClassDecl("Class", n, e, <<>>, <<"Method">>) : n \in ClassNames, e \in ParentLists}

HierarchyFiles == {<<d>> : d \in HierarchyDecls}

NoSuchMember == <<"nonexistent">>

ResolveQueries ==
    {make_fqn(n) : n \in ClassNames}
    \cup {make_fqn(n) \o <<"::">> \o m :
            n \in ClassNames, m \in {<<MemberName>>, NoSuchMember}}

Frame(class_fqn) ==
    [class |-> class_fqn, phase |-> "enter", rest |-> <<>>, impl |-> <<>>, await |-> FALSE]

Top == rm_stack[Len(rm_stack)]

Below == SubSeq(rm_stack, 1, Len(rm_stack) - 1)

(* a frame returns r: it is popped, and the call is done when it was the last *)
ReturnFrom(r) ==
    /\ rm_stack' = Below
    /\ rm_ret' = r
    /\ rm_pc' = IF Below = <<>> THEN "done" ELSE "running"

(* resolve_fqn(fqn): the three map lookups, then resolve_member's split and  *)
(* its first call of resolve_member_in_hierarchy                             *)
ResolveCall(fqn, ord) ==
    /\ rm_pc = "idle"
    /\ rm_query' = fqn
    /\ rm_ord' = ord
    /\ rm_visited' = <<>>
    /\ rm_revisit' = FALSE
    /\ LET split == rsplit_once(fqn)
       IN  IF fqn \in DOMAIN types \cup DOMAIN functions \cup DOMAIN constants
           THEN /\ rm_ret' = resolve_fqn(cur, fqn, ord)
                /\ rm_pc' = "done"
                /\ rm_stack' = <<>>
                /\ rm_calls' = 0
           ELSE IF split = None
           THEN /\ rm_ret' = None
                /\ rm_pc' = "done"
                /\ rm_stack' = <<>>
                /\ rm_calls' = 0
           ELSE /\ rm_ret' = None
                /\ rm_pc' = "running"
                /\ rm_stack' = <<Frame(Unwrap(split)[1])>>
                /\ rm_calls' = 1
    /\ UNCHANGED <<ivars, outside_index>>

(* entry of resolve_member_in_hierarchy: the visited check, the direct      *)
(* members, and the lookup of class_sym                                     *)
ResolveEnter ==
    /\ rm_pc = "running"
    /\ Top.phase = "enter"
    /\ LET class_fqn   == Top.class
           member_name == Unwrap(rsplit_once(rm_query))[2]
           members     == get_direct_members(cur, class_fqn, rm_ord)
           exact       == find_fqn(members, rm_query)
           byname      == find_name(members, member_name)
       IN  IF already_visited(rm_visited, class_fqn)
           THEN /\ ReturnFrom(None)
                /\ rm_revisit' = TRUE
                /\ UNCHANGED rm_visited
           ELSE /\ rm_visited' = Append(rm_visited, class_fqn)
                /\ UNCHANGED rm_revisit
                /\ IF IsSome(exact) THEN ReturnFrom(exact)
                   ELSE IF IsSome(byname) THEN ReturnFrom(byname)
                   ELSE IF class_fqn \in DOMAIN types
                   THEN /\ rm_stack' = Below \o
                              <<[Top EXCEPT !.phase = "extends",
                                            !.rest = types[class_fqn].extends,
                                            !.impl = types[class_fqn].implements]>>
                        /\ UNCHANGED <<rm_ret, rm_pc>>
                   ELSE ReturnFrom(None)
    /\ UNCHANGED <<ivars, outside_index, rm_query, rm_ord, rm_calls>>

(* one iteration of the extends loop or of the implements loop: the         *)
(* recursive call on the next parent; past the last one, the next loop or   *)
(* the final None                                                           *)
ResolveLoop ==
    /\ rm_pc = "running"
    /\ Top.phase \in {"extends", "implements"}
    /\ ~Top.await
    /\ IF Top.rest # <<>>
       THEN /\ rm_stack' = Below \o <<[Top EXCEPT !.rest = Tail(@), !.await = TRUE],
                                      Frame(Head(Top.rest))>>
            /\ rm_calls' = rm_calls + 1
            /\ UNCHANGED <<rm_ret, rm_pc>>
       ELSE IF Top.phase = "extends"
       THEN /\ rm_stack' = Below \o <<[Top EXCEPT !.phase = "implements", !.rest = Top.impl]>>
            /\ UNCHANGED <<rm_ret, rm_pc, rm_calls>>
       ELSE /\ ReturnFrom(None)
            /\ UNCHANGED rm_calls
    /\ UNCHANGED <<ivars, outside_index, rm_query, rm_ord, rm_visited, rm_revisit>>

(* the recursive call has returned: Some is returned at once, None goes on  *)
ResolveReturned ==
    /\ rm_pc = "running"
    /\ Top.phase \in {"extends", "implements"}
    /\ Top.await
    /\ IF IsSome(rm_ret)
       THEN ReturnFrom(rm_ret)
       ELSE /\ rm_stack' = Below \o <<[Top EXCEPT !.await = FALSE]>>
            /\ UNCHANGED <<rm_ret, rm_pc>>
    /\ UNCHANGED <<ivars, outside_index, rm_query, rm_ord, rm_visited, rm_calls, rm_revisit>>

ResolveStep == ResolveEnter \/ ResolveLoop \/ ResolveReturned

(* the caller takes the result; the index is then free to change again *)
ResolveDone ==
    /\ rm_pc = "done"
    /\ rm_pc' = "idle"
    /\ rm_query' = <<>>
    /\ rm_ord' = <<>>
    /\ rm_stack' = <<>>
    /\ rm_visited' = <<>>
    /\ rm_ret' = None
    /\ rm_calls' = 0
    /\ rm_revisit' = FALSE
    /\ UNCHANGED <<ivars, outside_index>>

(* the class graph is built by update_file / remove_file between two calls *)
HierarchyUpdate(uri, src) ==
    /\ rm_pc = "idle"
    /\ SetIndex(update_file(cur, uri, extract_file_symbols(src, uri)))
    /\ UNCHANGED <<last_call, rvars, outside_index>>

HierarchyRemove(uri) ==
    /\ rm_pc = "idle"
    /\ uri \in DOMAIN file_symbols
    /\ SetIndex(remove_file(cur, uri))
    /\ UNCHANGED <<last_call, rvars, outside_index>>

NextResolve ==
    \/ \E uri \in Uris, src \in HierarchyFiles : HierarchyUpdate(uri, src)
    \/ \E uri \in Uris : HierarchyRemove(uri)
    \/ \E fqn \in ResolveQueries, ord \in IterOrders(cur) : ResolveCall(fqn, ord)
    \/ ResolveEnter
    \/ ResolveLoop
    \/ ResolveReturned
    \/ ResolveDone

SpecResolve == Init /\ [][NextResolve]_vars

----------------------------------------------------------------------------
(* get_members over a workspace of three types, one file per type: each    *)
(* type has up to two parents among the other two (in extends, in          *)
(* implements, or one in each) and declares the method m or nothing.       *)

MemberTypes == {"A", "B", "T"}

UriOf(n) == "file:///" \o n \o ".php"

OrderedParents(n) ==
    LET others == {make_fqn(k) : k \in MemberTypes \ {n}}
    IN  {<<>>} \cup {<<x>> : x \in others}
               \cup {<<p[1], p[2]>> : p \in {q \in others \X others : q[1] # q[2]}}

(* a type extends one type at most and implements up to two, two parents  *)
(* at most in all                                                         *)
MemberTypeDecls(n) ==
    {d \in {ClassDecl("Class", n, e, i, ms) :
                e \in OrderedParents(n), i \in OrderedParents(n),
                ms \in {<<>>, <<"Method">>}} :
        Len(d.ext) <= 1 /\ Len(d.ext) + Len(d.impl) <= 2}

(* the workspace changes between two calls of get_members *)
MembersUpdate(n, d) ==
    /\ gm_type = None
    /\ SetIndex(update_file(cur, UriOf(n), extract_file_symbols(<<d>>, UriOf(n))))
    /\ UNCHANGED <<last_call, gvars, outside_members>>

MembersCall(type_fqn, ord) ==
    /\ gm_type = None
    /\ gm_type' = Some(type_fqn)
    /\ gm_members' = get_members(cur, type_fqn, ord)
    /\ UNCHANGED <<ivars, outside_members>>

(* the caller takes the Vec *)
MembersReturn ==
    /\ gm_type # None
    /\ gm_type' = None
    /\ gm_members' = <<>>
    /\ UNCHANGED <<ivars, outside_members>>

NextMembers ==
    \/ \E n \in MemberTypes : \E d \in MemberTypeDecls(n) : MembersUpdate(n, d)
    \/ \E n \in MemberTypes : \E ord \in IterOrders(cur) : MembersCall(make_fqn(n), ord)
    \/ MembersReturn

SpecMembers == Init /\ [][NextMembers]_vars

----------------------------------------------------------------------------
(* FileParser: a rope and a tree.  The rope is a sequence of characters,   *)
(* each one or two bytes of UTF-8 wide and one UTF-16 code unit wide, so   *)
(* that byte offsets, character indices and LSP columns are three things.  *)

MaxLen == 2

NL == "\n"

Chars == {"a", "é", NL}

len_utf8(c) == IF c = "é" THEN 2 ELSE 1

Min(a, b) == IF a <= b THEN a ELSE b

Max(a, b) == IF a >= b THEN a ELSE b

(* bytes of the first k characters *)
RECURSIVE char_to_byte(_, _)
char_to_byte(r, k) == IF k = 0 THEN 0 ELSE char_to_byte(r, k - 1) + len_utf8(r[k])

len_bytes(r) == char_to_byte(r, Len(r))

len_chars(r) == Len(r)

LineBreaks(r, k) == {i \in 1..k : r[i] = NL}

len_lines(r) == Cardinality(LineBreaks(r, Len(r))) + 1

(* the character index at which a line starts; line < len_lines *)
line_to_char(r, line) ==
    IF line = 0 THEN 0
    ELSE CHOOSE i \in 1..Len(r) : r[i] = NL /\ Cardinality(LineBreaks(r, i)) = line

line_to_byte(r, line) == char_to_byte(r, line_to_char(r, line))

(* the index of the character that holds the byte; len_chars at the end *)
byte_to_char(r, byte) == Cardinality({k \in 1..Len(r) : char_to_byte(r, k) <= byte})

byte_to_line(r, byte) ==
    Cardinality({k \in 1..Len(r) : r[k] = NL /\ char_to_byte(r, k) <= byte})

rope_remove(r, start, end) == SubSeq(r, 1, start) \o SubSeq(r, end + 1, Len(r))

rope_insert(r, at, text) == SubSeq(r, 1, at) \o text \o SubSeq(r, at + 1, Len(r))

position_to_byte(r, line, character) ==
    IF line >= len_lines(r) THEN len_bytes(r)
    ELSE LET line_start == line_to_byte(r, line)
             line_len   == IF line + 1 < len_lines(r)
                           THEN line_to_byte(r, line + 1) - line_start
                           ELSE len_bytes(r) - line_start
         IN  line_start + Min(character, line_len)

byte_to_position(r, byte) ==
    LET b          == Min(byte, len_bytes(r))
        line       == byte_to_line(r, b)
        line_start == line_to_byte(r, line)
    IN  <<line, b - line_start>>

(* The InputEdit apply_edit hands to the tree: offsets from position_to_byte, *)
(* the start and old end points as the caller gave them.                      *)
InputEdit(r, r2, start_line, start_char, end_line, end_char, new_text) ==
    LET start_byte   == position_to_byte(r, start_line, start_char)
        new_end_byte == start_byte + len_bytes(new_text)
    IN  [start_byte       |-> start_byte,
         old_end_byte     |-> position_to_byte(r, end_line, end_char),
         new_end_byte     |-> new_end_byte,
         start_position   |-> <<start_line, start_char>>,
         old_end_position |-> <<end_line, end_char>>,
         new_end_position |-> byte_to_position(r2, new_end_byte)]

(* An InputEdit describes the change from r to r2 exactly: its offsets are   *)
(* character boundaries of r, r2 is r with those bytes replaced, and its      *)
(* points are the points of its offsets.                                      *)
EditIsExact(e, r, r2) ==
    /\ e.start_byte <= e.old_end_byte
    /\ char_to_byte(r, byte_to_char(r, e.start_byte)) = e.start_byte
    /\ char_to_byte(r, byte_to_char(r, e.old_end_byte)) = e.old_end_byte
    /\ len_bytes(r2) = len_bytes(r) - (e.old_end_byte - e.start_byte)
                          + (e.new_end_byte - e.start_byte)
    /\ e.start_position = byte_to_position(r, e.start_byte)
    /\ e.old_end_position = byte_to_position(r, e.old_end_byte)
    /\ e.new_end_position = byte_to_position(r2, e.new_end_byte)

(* Parser::parse(source, old_tree): a tree of source.  With no old tree it  *)
(* is the full parse; with an old tree it is the full parse provided the    *)
(* old tree was one and was told the edit exactly, and is otherwise left    *)
(* open (tree-sitter reuses the old tree's nodes on the word of the edit).  *)
Parsed(source, exact) == Some([source |-> source, exact |-> exact])

(* An LSP range replayed on the text itself: the column counts UTF-16 code  *)
(* units (one per character here), past the line end it stops at the next   *)
(* line's start as position_to_byte does, and a range given end first is    *)
(* the span between its two positions.                                      *)
position_to_char(r, line, character) ==
    IF line >= len_lines(r) THEN len_chars(r)
    ELSE LET line_start == line_to_char(r, line)
             line_len   == IF line + 1 < len_lines(r)
                           THEN line_to_char(r, line + 1) - line_start
                           ELSE len_chars(r) - line_start
         IN  line_start + Min(character, line_len)

replay_edit(r, start_line, start_char, end_line, end_char, new_text) ==
    LET a == position_to_char(r, start_line, start_char)
        b == position_to_char(r, end_line, end_char)
    IN  rope_insert(rope_remove(r, Min(a, b), Max(a, b)), Min(a, b), new_text)

Texts == SeqsUpTo(Chars, MaxLen)

NewTexts == SeqsUpTo(Chars, 1)

Lines == 0..MaxLen

Columns == 0..MaxLen

(* parse_full(source) *)
ParseFull(source) ==
    /\ ~panicked
    /\ rope' = source
    /\ tree' = Parsed(source, TRUE)
    /\ replay' = source
    /\ last_edit' = [NoEdit EXCEPT !.op = "parse_full"]
    /\ UNCHANGED <<panicked, outside_parser>>

(* apply_edit(start_line, start_char, end_line, end_char, new_text);        *)
(* Rope::remove panics when the range's start is greater than its end.      *)
ApplyEdit(start_line, start_char, end_line, end_char, new_text) ==
    /\ ~panicked
    /\ tree # None
    /\ Len(rope) + Len(new_text) <= MaxLen
    /\ Len(replay) + Len(new_text) <= MaxLen
    /\ LET start_byte     == position_to_byte(rope, start_line, start_char)
           old_end_byte   == position_to_byte(rope, end_line, end_char)
           start_char_idx == byte_to_char(rope, start_byte)
           end_char_idx   == byte_to_char(rope, old_end_byte)
           rope2          == rope_insert(rope_remove(rope, start_char_idx, end_char_idx),
                                         start_char_idx, new_text)
           edit           == InputEdit(rope, rope2, start_line, start_char,
                                       end_line, end_char, new_text)
       IN  /\ last_edit' = [op |-> "apply_edit", start_byte |-> start_byte,
                            old_end_byte |-> old_end_byte, len_bytes |-> len_bytes(rope),
                            start_beyond |-> start_line >= len_lines(rope),
                            end_beyond |-> end_line >= len_lines(rope)]
           /\ replay' = replay_edit(replay, start_line, start_char, end_line, end_char,
                                    new_text)
           /\ IF start_char_idx > end_char_idx
              THEN /\ panicked' = TRUE
                   /\ UNCHANGED <<rope, tree>>
              ELSE /\ rope' = rope2
                   /\ \E exact \in IF Unwrap(tree).exact /\ EditIsExact(edit, rope, rope2)
                                   THEN {TRUE} ELSE BOOLEAN :
                          tree' = Parsed(rope2, exact)
                   /\ UNCHANGED panicked
    /\ UNCHANGED outside_parser

NextParser ==
    \/ \E source \in Texts : ParseFull(source)
    \/ \E start_line \in Lines, start_char \in Columns, end_line \in Lines,
          end_char \in Columns, new_text \in NewTexts :
          ApplyEdit(start_line, start_char, end_line, end_char, new_text)

SpecParser == Init /\ [][NextParser]_vars

----------------------------------------------------------------------------
(* The server: one document of the workspace, opened and edited by the     *)
(* editor while the background scan and lazy indexing read it from disk.   *)
(* Notifications arrive in order and their handlers run concurrently,      *)
(* suspended at each await.  Version 0 is the text on disk, which is also  *)
(* the text did_open carries; did_change number k gives version k.  The    *)
(* text is free of syntax errors, so compute_diagnostics reaches the       *)
(* semantic pass, which reads the document's digest from the index.        *)

MaxEdits == 2

Document == "file:///u1.php"

(* on disk the document declares class A; the unsaved edits rename it to B *)
SourceOf(version) ==
    IF version = 0 THEN <<SimpleDecl("Class", "A")>> ELSE <<SimpleDecl("Class", "B")>>

(* extract_file_symbols of a text; version records which text it was *)
DigestOf(version) ==
    [symbols |-> extract_file_symbols(SourceOf(version), Document).symbols,
     version |-> version]

(* the statements of did_change, in program order *)
did_change_steps == <<"apply", "digest", "update", "compute", "publish">>

(* a did_change that updates the index with the digest of the text on disk *)
redigest_from_disk(buffer_version) == DigestOf(0)

(* did_change re-digests the buffer it has just edited *)
redigest(buffer_version) == DigestOf(buffer_version)

SetHandler(h, rec) == handlers' = [handlers EXCEPT ![h] = rec]

Logged(h, step) == Append(handlers[h].log, step)

(* compute_diagnostics for the document: empty when it is not open,        *)
(* otherwise from the parser's text and the index's digest of the document *)
compute_diagnostics ==
    IF Document \in DOMAIN open_files
    THEN [open |-> TRUE, text |-> open_files[Document],
          digest |-> IF Document \in DOMAIN file_symbols
                     THEN Some(file_symbols[Document].version) ELSE None]
    ELSE [open |-> FALSE, text |-> 0, digest |-> None]

(* the editor's next notification is dispatched to a free handler *)
Dispatch(h) ==
    /\ handlers[h].kind = "none"
    /\ sent <= MaxEdits
    /\ editor # "closed"
    /\ sent' = sent + 1
    /\ editor' = "open"
    /\ SetHandler(h, [IdleHandler EXCEPT
                        !.kind = IF sent = 0 THEN "did_open" ELSE "did_change",
                        !.pc = "start", !.version = sent])
    /\ UNCHANGED <<ivars, open_files, guard, scan, last_pub, outside_server>>

(* the editor closes the document it has open: its did_close notification *)
(* is dispatched to a free handler                                        *)
DispatchClose(h) ==
    /\ handlers[h].kind = "none"
    /\ editor = "open"
    /\ editor' = "closed"
    /\ SetHandler(h, [IdleHandler EXCEPT !.kind = "did_close", !.pc = "start",
                                         !.version = sent])
    /\ UNCHANGED <<ivars, open_files, guard, sent, scan, last_pub, outside_server>>

(* did_open: parse_full(text), extract_file_symbols, index.update_file *)
DidOpenIndex(h) ==
    /\ handlers[h].kind = "did_open"
    /\ handlers[h].pc = "start"
    /\ SetIndex(update_file(cur, Document, DigestOf(handlers[h].version)))
    /\ SetHandler(h, [handlers[h] EXCEPT !.pc = "indexed"])
    /\ UNCHANGED <<open_files, guard, sent, scan, last_pub, editor, outside_server>>

(* did_open, after log_trace: open_files.insert(uri, parser) *)
DidOpenInsert(h) ==
    /\ handlers[h].kind = "did_open"
    /\ handlers[h].pc = "indexed"
    /\ guard = None
    /\ open_files' = MapInsert(open_files, Document, handlers[h].version)
    /\ SetHandler(h, [handlers[h] EXCEPT !.pc = "publishing"])
    /\ UNCHANGED <<ivars, guard, sent, scan, last_pub, editor, outside_server>>

(* did_change: open_files.get_mut; with the document open, all the edits   *)
(* of the change are applied under the guard; otherwise nothing is applied *)
DidChangeApply(h) ==
    /\ handlers[h].kind = "did_change"
    /\ handlers[h].pc = "start"
    /\ guard = None
    /\ IF Document \in DOMAIN open_files
       THEN /\ guard' = Some(h)
            /\ open_files' = MapInsert(open_files, Document, handlers[h].version)
            /\ SetHandler(h, [handlers[h] EXCEPT !.pc = "applied", !.found_open = TRUE,
                                                 !.log = Logged(h, "apply")])
       ELSE /\ SetHandler(h, [handlers[h] EXCEPT !.pc = "publishing"])
            /\ UNCHANGED <<guard, open_files>>
    /\ UNCHANGED <<ivars, sent, scan, last_pub, editor, outside_server>>

(* did_change: parser.source(), extract_file_symbols *)
DidChangeDigest(h) ==
    /\ handlers[h].kind = "did_change"
    /\ handlers[h].pc = "applied"
    /\ SetHandler(h, [handlers[h] EXCEPT !.pc = "digested",
                                         !.digest = Some(redigest(open_files[Document])),
                                         !.log = Logged(h, "digest")])
    /\ UNCHANGED <<ivars, open_files, guard, sent, scan, last_pub, editor, outside_server>>

(* did_change: index.update_file, and the guard is dropped *)
DidChangeUpdate(h) ==
    /\ handlers[h].kind = "did_change"
    /\ handlers[h].pc = "digested"
    /\ SetIndex(update_file(cur, Document, Unwrap(handlers[h].digest)))
    /\ guard' = None
    /\ SetHandler(h, [handlers[h] EXCEPT !.pc = "publishing", !.log = Logged(h, "update")])
    /\ UNCHANGED <<open_files, sent, scan, last_pub, editor, outside_server>>

(* publish_diagnostics: open_files.get and compute_diagnostics *)
PublishCompute(h) ==
    /\ handlers[h].pc = "publishing"
    /\ guard = None
    /\ SetHandler(h, [handlers[h] EXCEPT !.pc = "computed",
                                         !.diagnostics = Some(compute_diagnostics),
                                         !.log = Logged(h, "compute")])
    /\ UNCHANGED <<ivars, open_files, guard, sent, scan, last_pub, editor, outside_server>>

(* publish_diagnostics: client.publish_diagnostics(..).await *)
PublishSend(h) ==
    /\ handlers[h].pc = "computed"
    /\ last_pub' = Some([by |-> handlers[h].kind] @@ Unwrap(handlers[h].diagnostics))
    /\ SetHandler(h, [handlers[h] EXCEPT !.pc = "done", !.log = Logged(h, "publish")])
    /\ UNCHANGED <<ivars, open_files, guard, sent, scan, editor, outside_server>>

(* did_close: open_files.remove(uri) *)
DidCloseRemove(h) ==
    /\ handlers[h].kind = "did_close"
    /\ handlers[h].pc = "start"
    /\ guard = None
    /\ open_files' = MapRemove(open_files, Document)
    /\ SetHandler(h, [handlers[h] EXCEPT !.pc = "clearing"])
    /\ UNCHANGED <<ivars, guard, sent, scan, last_pub, editor, outside_server>>

(* did_close: client.publish_diagnostics(uri, vec![], None).await *)
DidCloseClear(h) ==
    /\ handlers[h].kind = "did_close"
    /\ handlers[h].pc = "clearing"
    /\ last_pub' = Some([by |-> "did_close", open |-> FALSE, text |-> 0, digest |-> None])
    /\ SetHandler(h, [handlers[h] EXCEPT !.pc = "done"])
    /\ UNCHANGED <<ivars, open_files, guard, sent, scan, editor, outside_server>>

(* the handler's future completes *)
HandlerReturn(h) ==
    /\ handlers[h].pc = "done"
    /\ SetHandler(h, IdleHandler)
    /\ UNCHANGED <<ivars, open_files, guard, sent, scan, last_pub, editor, outside_server>>

(* initialized spawns the scan *)
ScanStart ==
    /\ scan = "not_started"
    /\ scan' = "scanning"
    /\ UNCHANGED <<ivars, open_files, guard, handlers, sent, last_pub, editor, outside_server>>

(* index_workspace: read_to_string, parse_full, extract, index.update_file *)
ScanFile ==
    /\ scan = "scanning"
    /\ SetIndex(update_file(cur, Document, DigestOf(0)))
    /\ scan' = "republish"
    /\ UNCHANGED <<open_files, guard, handlers, sent, last_pub, editor, outside_server>>

(* after the scan: for each open file, compute_diagnostics and publish *)
ScanRepublish ==
    /\ scan = "republish"
    /\ guard = None
    /\ scan' = "done"
    /\ last_pub' = IF Document \in DOMAIN open_files
                   THEN Some([by |-> "scan"] @@ compute_diagnostics)
                   ELSE last_pub
    /\ UNCHANGED <<ivars, open_files, guard, handlers, sent, editor, outside_server>>

(* resolve_fqn_lazy for the class the file on disk declares: the index does *)
(* not resolve it, the namespace map names the document's path, and the     *)
(* file is read from disk and indexed                                       *)
LazyIndex ==
    /\ \A ord \in IterOrders(cur) : resolve_fqn(cur, make_fqn("A"), ord) = None
    /\ SetIndex(update_file(cur, Document, DigestOf(0)))
    /\ UNCHANGED <<svars, outside_server>>

NextServer ==
    \/ \E h \in Handlers : Dispatch(h)
    \/ \E h \in Handlers : DidOpenIndex(h)
    \/ \E h \in Handlers : DidOpenInsert(h)
    \/ \E h \in Handlers : DidChangeApply(h)
    \/ \E h \in Handlers : DidChangeDigest(h)
    \/ \E h \in Handlers : DidChangeUpdate(h)
    \/ \E h \in Handlers : PublishCompute(h)
    \/ \E h \in Handlers : PublishSend(h)
    \/ \E h \in Handlers : HandlerReturn(h)
    \/ \E h \in Handlers : DispatchClose(h)
    \/ \E h \in Handlers : DidCloseRemove(h)
    \/ \E h \in Handlers : DidCloseClear(h)
    \/ ScanStart
    \/ ScanFile
    \/ ScanRepublish
    \/ LazyIndex

SpecServer == Init /\ [][NextServer]_vars

----------------------------------------------------------------------------
(* index_workspace: the loop of the background scan, file by file, with    *)
(* its semaphore, its progress reports and its yields; and the shutdown    *)
(* request, which the server answers while the scan runs.                  *)

NumFiles == 51

SemaphorePermits == 4

ReportEvery == 10

YieldEvery == 50

(* all_files[i]: the workspace alternates between two paths *)
ScanUri(i) == IF i % 2 = 0 THEN "file:///u1.php" ELSE "file:///u2.php"

ScanSource(i) == IF i % 2 = 0 THEN <<SimpleDecl("Class", "A")>> ELSE <<SimpleDecl("Class", "B")>>

(* a permit that is forgotten instead of dropped *)
forget_permit(available) == available

(* `_permit` goes out of scope at the end of the loop body *)
drop_permit(available) == available + 1

(* the scan passes a suspension point *)
Suspend == yielded' = (yielded \/ shutdown_requested)

(* initialized: tokio::spawn of index_workspace; the progress token is     *)
(* created and the files are collected; Semaphore::new(4)                  *)
ScanSpawn ==
    /\ scan_pc = "not_spawned"
    /\ \E progress_supported \in BOOLEAN : ongoing' = progress_supported
    /\ permits' = SemaphorePermits
    /\ scan_pc' = "loop"
    /\ UNCHANGED <<ivars, scan_i, indexed, shutdown_requested, yielded, outside_scan>>

(* for (i, file_path) in all_files: semaphore.acquire().await *)
ScanAcquire ==
    /\ scan_pc = "loop"
    /\ scan_i < NumFiles
    /\ permits > 0
    /\ permits' = permits - 1
    /\ scan_pc' = "holding"
    /\ UNCHANGED <<ivars, scan_i, indexed, ongoing, shutdown_requested, yielded, outside_scan>>

(* read_to_string, parse_full, extract_file_symbols, index.update_file,    *)
(* indexed.fetch_add(1)                                                    *)
ScanIndexFile ==
    /\ scan_pc = "holding"
    /\ \E readable \in BOOLEAN :
          IF readable
          THEN SetIndex(update_file(cur, ScanUri(scan_i),
                                    extract_file_symbols(ScanSource(scan_i), ScanUri(scan_i))))
          ELSE UNCHANGED <<types, functions, constants, file_symbols>>
    /\ indexed' = indexed + 1
    /\ scan_pc' = IF ongoing /\ (indexed' % ReportEvery = 0 \/ indexed' = NumFiles)
                  THEN "report" ELSE "reported"
    /\ UNCHANGED <<last_call, scan_i, permits, ongoing, shutdown_requested, yielded, outside_scan>>

(* p.report_with_message(..).await *)
ScanReport ==
    /\ scan_pc = "report"
    /\ scan_pc' = "reported"
    /\ Suspend
    /\ UNCHANGED <<ivars, scan_i, permits, indexed, ongoing, shutdown_requested, outside_scan>>

(* if i % 50 == 0 { yield_now().await }; then the loop body ends and the   *)
(* permit is dropped                                                       *)
ScanEndIteration ==
    /\ scan_pc = "reported"
    /\ IF scan_i % YieldEvery = 0 THEN Suspend ELSE UNCHANGED yielded
    /\ permits' = drop_permit(permits)
    /\ scan_i' = scan_i + 1
    /\ scan_pc' = "loop"
    /\ UNCHANGED <<ivars, indexed, ongoing, shutdown_requested, outside_scan>>

(* after the loop: finish_with_message, log_message *)
ScanFinish ==
    /\ scan_pc = "loop"
    /\ scan_i = NumFiles
    /\ scan_pc' = "finished"
    /\ Suspend
    /\ UNCHANGED <<ivars, scan_i, permits, indexed, ongoing, shutdown_requested, outside_scan>>

(* shutdown, which the editor requests after initialized: logs and        *)
(* answers Ok(())                                                         *)
Shutdown ==
    /\ scan_pc # "not_spawned"
    /\ ~shutdown_requested
    /\ shutdown_requested' = TRUE
    /\ UNCHANGED <<ivars, scan_pc, scan_i, permits, indexed, ongoing, yielded, outside_scan>>

NextScan ==
    \/ ScanSpawn
    \/ ScanAcquire
    \/ ScanIndexFile
    \/ ScanReport
    \/ ScanEndIteration
    \/ ScanFinish
    \/ Shutdown

SpecScan == Init /\ [][NextScan]_vars

----------------------------------------------------------------------------
(* The text of a PHP file, as the named nodes that symbol_at_position, the *)
(* reference finder and the diagnostics look at. A node is a name together *)
(* with the kind of the node it is the name of; its line is its position   *)
(* in the text. Identifiers and FQNs are sequences of tokens: App\x is     *)
(* <<"App", "\\", "x">>, the property A::$x is <<"A", "::", "$", "x">>.    *)

MaxUses == 2

StubUri == "phpstub://Core/Core.php"

TextKinds == {"Class", "Function", "GlobalConstant", "Method", "Property", "Variable"}

DeclarationNode(kind) ==
    CASE kind = "Class" -> "class_declaration"
      [] kind = "Function" -> "function_definition"
      [] kind = "GlobalConstant" -> "const_element"
      [] kind = "Method" -> "method_declaration"
      [] kind = "Property" -> "property_element"
      [] kind = "Variable" -> "variable_name"

UsageNode(kind) ==
    CASE kind = "Class" -> "object_creation_expression"
      [] kind = "Function" -> "function_call_expression"
      [] kind = "GlobalConstant" -> "echo_statement"
      [] kind = "Method" -> "member_call_expression"
      [] kind = "Property" -> "member_access_expression"
      [] kind = "Variable" -> "variable_name"

(* a file that declares (decl) a symbol of one kind and uses it `uses`     *)
(* times; methods and properties are those of class A, used on $this       *)
(* inside A; `broken` adds a statement that does not parse                 *)
PhpText(ns, imports, kind, name, decl, uses, broken) ==
    [namespace |-> ns, use_statements |-> imports,
     nodes |-> (IF kind \in {"Method", "Property"}
                THEN <<Node("class_declaration", <<"A">>)>> ELSE <<>>)
               \o (IF decl
                   THEN <<Node(DeclarationNode(kind),
                               IF kind \in {"Property", "Variable"}
                               THEN <<"$">> \o name ELSE name)>>
                   ELSE <<>>)
               \o [i \in 1..uses |->
                     Node(UsageNode(kind), IF kind = "Variable" THEN <<"$">> \o name ELSE name)]
               \o (IF broken THEN <<Node("ERROR", <<>>)>> ELSE <<>>)]

(* str::strip_prefix(c).unwrap_or(s) *)
strip_prefix(s, c) == IF s # <<>> /\ Head(s) = c THEN Tail(s) ELSE s

RECURSIVE trim_start_matches(_, _)
trim_start_matches(s, c) ==
    IF s # <<>> /\ Head(s) = c THEN trim_start_matches(Tail(s), c) ELSE s

RECURSIVE trim_end_matches(_, _)
trim_end_matches(s, c) ==
    IF s # <<>> /\ s[Len(s)] = c THEN trim_end_matches(SubSeq(s, 1, Len(s) - 1), c) ELSE s

trim(s) == trim_end_matches(trim_start_matches(s, " "), " ")

(* rsplit('\\').next(): the last segment of a qualified name *)
last_segment(fqn) ==
    LET seps == {i \in 1..Len(fqn) : fqn[i] = "\\"}
    IN  IF seps = {} THEN fqn
        ELSE SubSeq(fqn, (CHOOSE k \in seps : \A j \in seps : j <= k) + 1, Len(fqn))

(* symbols.rs make_fqn with the current namespace *)
make_fqn_in(namespace, name) ==
    IF IsSome(namespace) THEN Unwrap(namespace) \o <<"\\">> \o name ELSE name

(* extract_from_node over the nodes of a text, inside class `cls` or none *)
RECURSIVE extract_nodes(_, _, _, _)
extract_nodes(text, uri, i, cls) ==
    IF i > Len(text.nodes) THEN <<>>
    ELSE LET n == text.nodes[i]
         IN  CASE n.node = "class_declaration" ->
                    LET fqn == make_fqn_in(text.namespace, n.text)
                    IN  <<SymbolInfo(n.text, fqn, "Class", uri, i, None, <<>>, <<>>)>>
                        \o extract_nodes(text, uri, i + 1, Some(fqn))
               [] n.node = "function_definition" ->
                    <<SymbolInfo(n.text, make_fqn_in(text.namespace, n.text), "Function",
                                 uri, i, None, <<>>, <<>>)>>
                    \o extract_nodes(text, uri, i + 1, cls)
               [] n.node = "const_element" ->
                    <<SymbolInfo(n.text, make_fqn_in(text.namespace, n.text),
                                 "GlobalConstant", uri, i, None, <<>>, <<>>)>>
                    \o extract_nodes(text, uri, i + 1, cls)
               [] n.node = "method_declaration" /\ IsSome(cls) ->
                    <<SymbolInfo(n.text, Unwrap(cls) \o <<"::">> \o n.text, "Method",
                                 uri, i, cls, <<>>, <<>>)>>
                    \o extract_nodes(text, uri, i + 1, cls)
               [] n.node = "property_element" /\ IsSome(cls) ->
                    LET name == strip_prefix(n.text, "$")
                    IN  <<SymbolInfo(name, Unwrap(cls) \o <<"::", "$">> \o name, "Property",
                                     uri, i, cls, <<>>, <<>>)>>
                        \o extract_nodes(text, uri, i + 1, cls)
               [] OTHER -> extract_nodes(text, uri, i + 1, cls)

(* extract_file_symbols of a text: its namespace, its imports, its symbols *)
extract_text_symbols(text, uri) ==
    [symbols |-> extract_nodes(text, uri, 1, None),
     namespace |-> text.namespace, use_statements |-> text.use_statements]

(* load_stubs marks every symbol of a stub file *)
mark_builtin(fs) ==
    [fs EXCEPT !.symbols = [i \in 1..Len(fs.symbols) |->
                               fs.symbols[i] @@ [is_builtin |-> TRUE]]]

(* sym.modifiers.is_builtin: false by default *)
is_builtin(sym) == "is_builtin" \in DOMAIN sym

(* resolve_class_name / resolve_name_to_fqn for a name without backslash:  *)
(* the first class import whose alias is the name, else the namespace      *)
resolve_class_name(name, file_syms) ==
    LET hits == {i \in 1..Len(file_syms.use_statements) :
                    last_segment(file_syms.use_statements[i]) = name}
    IN  IF hits # {}
        THEN file_syms.use_statements[CHOOSE i \in hits : \A j \in hits : i <= j]
        ELSE make_fqn_in(file_syms.namespace, name)

(* FileSymbols.use_statements with the kind and the alias of each: a      *)
(* digest of a text has class imports without alias only                  *)
UseStatement(kind, alias, fqn) == [kind |-> kind, alias |-> alias, fqn |-> fqn]

uses_of(file_syms) ==
    IF "imports" \in DOMAIN file_syms THEN file_syms.imports
    ELSE [i \in 1..Len(file_syms.use_statements) |->
             UseStatement("Class", None, file_syms.use_statements[i])]

(* use_stmt.alias, or the last segment of its FQN *)
alias_of(use_stmt) ==
    IF IsSome(use_stmt.alias) THEN Unwrap(use_stmt.alias) ELSE last_segment(use_stmt.fqn)

(* name.split('\\'): parts[0], and parts[1..].join("\\") *)
first_part(name) ==
    IF Contains(name, "\\")
    THEN SubSeq(name, 1, (CHOOSE i \in 1..Len(name) :
                             name[i] = "\\" /\ \A j \in 1..(i - 1) : name[j] # "\\") - 1)
    ELSE name

rest_parts(name) == SubSeq(name, Len(first_part(name)) + 2, Len(name))

(* the first import of the kind that Matches *)
first_use(file_syms, kind, Matches(_)) ==
    LET uses == uses_of(file_syms)
        hits == {i \in 1..Len(uses) : uses[i].kind = kind /\ Matches(uses[i])}
    IN  IF hits = {} THEN None ELSE Some(uses[CHOOSE i \in hits : \A j \in hits : i <= j])

(* resolve_function_name: a leading backslash is dropped; a function      *)
(* import whose alias is the whole name wins; a qualified name is kept as *)
(* it is; a simple name gets the namespace                                *)
resolve_function_name(name, file_syms) ==
    IF name # <<>> /\ Head(name) = "\\" THEN trim_start_matches(name, "\\")
    ELSE LET use_stmt == first_use(file_syms, "Function", LAMBDA u : alias_of(u) = name)
         IN  IF IsSome(use_stmt) THEN Unwrap(use_stmt).fqn
             ELSE IF Contains(name, "\\") THEN name
             ELSE make_fqn_in(file_syms.namespace, name)

(* resolve_constant_name: a leading backslash is dropped; a constant      *)
(* import whose alias is the first part wins; any other name, qualified   *)
(* or not, gets the namespace                                             *)
resolve_constant_name(name, file_syms) ==
    IF name # <<>> /\ Head(name) = "\\" THEN trim_start_matches(name, "\\")
    ELSE LET use_stmt == first_use(file_syms, "Constant",
                                   LAMBDA u : alias_of(u) = first_part(name))
         IN  IF IsSome(use_stmt)
             THEN IF ~Contains(name, "\\") THEN Unwrap(use_stmt).fqn
                  ELSE Unwrap(use_stmt).fqn \o <<"\\">> \o rest_parts(name)
             ELSE IF Contains(name, "\\")
             THEN (IF IsSome(file_syms.namespace)
                   THEN Unwrap(file_syms.namespace) \o <<"\\">> \o name ELSE name)
             ELSE make_fqn_in(file_syms.namespace, name)

(* find_parent_class_fqn: the class declaration the node is inside *)
find_parent_class_fqn(text, cursor, file_syms) ==
    LET classes == {i \in 1..(cursor - 1) : text.nodes[i].node = "class_declaration"}
    IN  IF classes = {} THEN None
        ELSE Some(resolve_class_name(
                     text.nodes[CHOOSE i \in classes : \A j \in classes : j <= i].text,
                     file_syms))

SymbolAtPosition(fqn, name, ref_kind) == [fqn |-> fqn, name |-> name, ref_kind |-> ref_kind]

(* symbol_at_position: find_node_at_point, then resolve_node by the kind  *)
(* of the parent node                                                     *)
symbol_at_position(text, cursor, file_syms) ==
    IF cursor \notin 1..Len(text.nodes) THEN None
    ELSE
      LET n   == text.nodes[cursor]
          cls == find_parent_class_fqn(text, cursor, file_syms)
      IN  CASE n.node \in {"object_creation_expression", "class_declaration"} ->
                 Some(SymbolAtPosition(resolve_class_name(n.text, file_syms), n.text,
                                       "ClassName"))
            [] n.node \in {"function_call_expression", "function_definition"} ->
                 Some(SymbolAtPosition(resolve_function_name(n.text, file_syms), n.text,
                                       "FunctionCall"))
            [] n.node \in {"echo_statement", "const_element"} ->
                 Some(SymbolAtPosition(resolve_function_name(n.text, file_syms), n.text,
                                       "GlobalConstant"))
            [] n.node \in {"member_call_expression", "method_declaration"} ->
                 Some(SymbolAtPosition(IF IsSome(cls) THEN Unwrap(cls) \o <<"::">> \o n.text
                                       ELSE n.text,
                                       n.text, "MethodCall"))
            [] n.node = "member_access_expression" ->
                 LET property_name == IF Head(n.text) = "$" THEN n.text ELSE <<"$">> \o n.text
                 IN  Some(SymbolAtPosition(IF IsSome(cls)
                                           THEN Unwrap(cls) \o <<"::">> \o property_name
                                           ELSE property_name,
                                           n.text, "PropertyAccess"))
            [] n.node \in {"property_element", "variable_name"} ->
                 Some(SymbolAtPosition(n.text, n.text, "Variable"))
            [] OTHER -> None

(* the PhpSymbolKind that references and rename take for a RefKind *)
kind_of_ref(ref_kind) ==
    CASE ref_kind = "ClassName" -> "Class"
      [] ref_kind = "FunctionCall" -> "Function"
      [] ref_kind = "MethodCall" -> "Method"
      [] ref_kind = "PropertyAccess" -> "Property"
      [] ref_kind = "GlobalConstant" -> "GlobalConstant"

(* resolve_fqn_with_fallback: the FQN, then for functions and constants   *)
(* the short name after the last backslash                                *)
resolve_fqn_with_fallback(ix, fqn, ref_kind, ord) ==
    LET direct == resolve_fqn(ix, fqn, ord)
    IN  IF IsSome(direct) THEN direct
        ELSE IF ref_kind \in {"FunctionCall", "GlobalConstant"} /\ Contains(fqn, "\\")
        THEN resolve_fqn(ix, last_segment(fqn), ord)
        ELSE None

(* the lines of the nodes of a text that satisfy Hit, in document order *)
walk(text, Hit(_)) ==
    SelectSeq([i \in 1..Len(text.nodes) |-> i], LAMBDA i : Hit(text.nodes[i]))

(* the selection_range of the symbols of a digest that satisfy Declares *)
declarations(file_syms, Declares(_)) ==
    LET hits == SelectSeq(file_syms.symbols, Declares)
    IN  [i \in 1..Len(hits) |-> hits[i].line]

(* parent kinds under which walk_for_constant_refs skips a name node *)
constant_skips ==
    {"function_call_expression", "object_creation_expression", "class_declaration",
     "interface_declaration", "trait_declaration", "enum_declaration",
     "function_definition", "named_type", "use_declaration", "namespace_use_clause"}

(* the `name` node of a node and the kind of that name's parent: the name *)
(* of a variable is the child of its variable_name                        *)
name_parent(n) == IF n.node \in {"property_element", "variable_name"}
                  THEN "variable_name" ELSE n.node

name_text(n) == strip_prefix(n.text, "$")

(* find_references_in_file: the declarations, if asked for, and then the  *)
(* sites the walk for the kind of the target finds                        *)
find_references_in_file(text, file_syms, target_fqn, target_kind, include_declaration) ==
    LET declared(Declares(_)) ==
            IF include_declaration THEN declarations(file_syms, Declares) ELSE <<>>
    IN  CASE target_kind \in TypeKinds ->
               declared(LAMBDA sym : sym.fqn = target_fqn /\ sym.kind \in TypeKinds)
               \o walk(text, LAMBDA n : /\ n.node = "object_creation_expression"
                                       /\ resolve_class_name(n.text, file_syms) = target_fqn)
          [] target_kind = "Function" ->
               declared(LAMBDA sym : sym.fqn = target_fqn /\ sym.kind = "Function")
               \o walk(text, LAMBDA n : /\ n.node = "function_call_expression"
                                       /\ resolve_function_name(n.text, file_syms) = target_fqn)
          [] target_kind \in {"Method", "Property", "ClassConstant", "EnumCase"} ->
               IF rsplit_once(target_fqn) = None THEN <<>>
               ELSE LET member_name == Unwrap(rsplit_once(target_fqn))[2]
                    IN  declared(LAMBDA sym : sym.fqn = target_fqn)
                        \o walk(text, LAMBDA n :
                                   \/ /\ n.node \in {"member_access_expression",
                                                     "member_call_expression"}
                                      /\ n.text = member_name
                                   \/ /\ n.node \in {"scoped_call_expression",
                                                     "scoped_property_access_expression"}
                                      /\ n.text = member_name
                                      /\ \/ resolve_class_name(n.scope, file_syms)
                                               = Unwrap(rsplit_once(target_fqn))[1]
                                         \/ n.scope \in {<<"self">>, <<"static">>,
                                                          <<"parent">>})
          [] target_kind = "GlobalConstant" ->
               declared(LAMBDA sym : sym.fqn = target_fqn /\ sym.kind = "GlobalConstant")
               \o walk(text, LAMBDA n :
                          /\ n.node # "ERROR"
                          /\ name_parent(n) \notin constant_skips
                          /\ resolve_class_name(name_text(n), file_syms) = target_fqn)
          [] OTHER -> <<>>

(* all variable_name nodes with the identifier of the one under the cursor *)
find_variable_references_at_position(text, cursor, include_declaration) ==
    walk(text, LAMBDA n : /\ name_parent(n) = "variable_name"
                          /\ n.text = text.nodes[cursor].text)

not_renameable == {<<"$", "this">>, <<"$", "GLOBALS">>, <<"$", "argc">>, <<"$", "argv">>}

is_renameable_variable(var_name) == var_name \notin not_renameable

is_ascii_alphabetic(c) == c \in {"n", "x", "s", "A"}

is_ascii_alphanumeric(c) == is_ascii_alphabetic(c) \/ c = "1"

normalize_variable_new_name(new_name) ==
    LET trimmed == trim(new_name)
        raw     == strip_prefix(trimmed, "$")
    IN  IF trimmed = <<>> \/ raw = <<>> THEN None
        ELSE IF ~(Head(raw) = "_" \/ is_ascii_alphabetic(Head(raw))) THEN None
        ELSE IF ~(\A i \in 2..Len(raw) : raw[i] = "_" \/ is_ascii_alphanumeric(raw[i]))
        THEN None
        ELSE Some(<<"$">> \o raw)

normalize_property_new_name(new_name) ==
    LET var == normalize_variable_new_name(new_name)
    IN  IF var = None THEN None ELSE Some(trim_start_matches(Unwrap(var), "$"))

range_starts_with_dollar(text, line) ==
    /\ line \in 1..Len(text.nodes)
    /\ text.nodes[line].text # <<>>
    /\ Head(text.nodes[line].text) = "$"

----------------------------------------------------------------------------
(* Diagnostics of a text *)

(* extract_syntax_errors: one diagnostic per ERROR or MISSING node *)
extract_syntax_errors(text) ==
    LET lines == walk(text, LAMBDA n : n.node \in {"ERROR", "MISSING"})
    IN  [i \in 1..Len(lines) |-> [class |-> "syntax", kind |-> "SyntaxError", line |-> lines[i]]]

(* extract_semantic_diagnostics: check_use_statements, then the walk with *)
(* check_class_in_new and check_function_call; the resolver is the index  *)
extract_semantic_diagnostics(text, file_syms, ix, ord) ==
    LET unresolved(fqn) == Contains(fqn, "\\") /\ resolve_fqn(ix, fqn, ord) = None
        imports == SelectSeq(file_syms.use_statements, unresolved)
        sites   == walk(text, LAMBDA n :
                      \/ /\ n.node = "object_creation_expression"
                         /\ unresolved(resolve_class_name(n.text, file_syms))
                      \/ /\ n.node = "function_call_expression"
                         /\ unresolved(resolve_function_name(n.text, file_syms)))
    IN  [i \in 1..Len(imports) |-> [class |-> "semantic", kind |-> "UnresolvedUse", line |-> 0]]
        \o [i \in 1..Len(sites) |->
              [class |-> "semantic",
               kind |-> IF text.nodes[sites[i]].node = "object_creation_expression"
                        THEN "UnknownClass" ELSE "UnknownFunction",
               line |-> sites[i]]]

(* a compute_diagnostics that never returns before the semantic pass *)
never_syntax_only(diagnostics) == FALSE

(* `if !diagnostics.is_empty() { return diagnostics; }` *)
syntax_only(diagnostics) == diagnostics # <<>>

(* compute_diagnostics(uri, parser, index) *)
compute_text_diagnostics(uri, text, ix, ord) ==
    LET diagnostics  == extract_syntax_errors(text)
        file_syms == IF uri \in DOMAIN ix.file_symbols THEN ix.file_symbols[uri]
                        ELSE [symbols |-> <<>>, namespace |-> None, use_statements |-> <<>>]
    IN  IF syntax_only(diagnostics) THEN diagnostics
        ELSE diagnostics \o extract_semantic_diagnostics(text, file_syms, ix, ord)

----------------------------------------------------------------------------
(* references and rename over the indexed files *)

(* one pass of the loop over index.file_symbols: the parser of an open    *)
(* file, else the file read from disk; a URI that is no file:// path, or  *)
(* a file that cannot be read, is skipped                                 *)
source_of(open, on_disk, file_uri) ==
    IF file_uri \in DOMAIN open THEN Some(open[file_uri])
    ELSE IF file_uri \in DOMAIN on_disk THEN Some(on_disk[file_uri])
    ELSE None

references_in(ix, open, on_disk, file_uri, target_fqn, target_kind, include_declaration) ==
    LET source == source_of(open, on_disk, file_uri)
    IN  IF source = None THEN <<>>
        ELSE LET refs == find_references_in_file(Unwrap(source), ix.file_symbols[file_uri],
                                                 target_fqn, target_kind, include_declaration)
             IN  [i \in 1..Len(refs) |-> [uri |-> file_uri, line |-> refs[i]]]

RECURSIVE references_loop(_, _, _, _, _, _, _)
references_loop(ix, open, on_disk, ord, target_fqn, target_kind, include_declaration) ==
    IF ord = <<>> THEN <<>>
    ELSE references_in(ix, open, on_disk, Head(ord), target_fqn, target_kind,
                       include_declaration)
         \o references_loop(ix, open, on_disk, Tail(ord), target_fqn, target_kind,
                            include_declaration)

(* the target of references and rename: the resolved symbol's FQN and     *)
(* kind, else the FQN and kind of the symbol under the cursor             *)
target_of(ix, sym, ord) ==
    LET resolved == resolve_fqn_with_fallback(ix, sym.fqn, sym.ref_kind, ord)
    IN  IF IsSome(resolved)
        THEN [fqn |-> Unwrap(resolved).fqn, kind |-> Unwrap(resolved).kind]
        ELSE [fqn |-> sym.fqn, kind |-> kind_of_ref(sym.ref_kind)]

(* a rename that looks the built-in up under the name as written *)
builtin_lookup_as_written(sym, target) == sym.fqn

(* rename looks the built-in up under the target FQN *)
builtin_lookup(sym, target) == target.fqn

(* the new_text of the edit at one reference *)
new_text_at(source_text, line, target_kind, property_new_name, new_name) ==
    IF target_kind = "Property" /\ range_starts_with_dollar(source_text, line)
    THEN <<"$">> \o (IF IsSome(property_new_name) THEN Unwrap(property_new_name)
                     ELSE trim_start_matches(new_name, "$"))
    ELSE IF IsSome(property_new_name) THEN Unwrap(property_new_name) ELSE new_name

(* rename: the reply to (uri, cursor, new_name) *)
rename(ix, open, on_disk, uri, cursor, new_name, ord) ==
    IF new_name = <<>> \/ Contains(new_name, " ") \/ Contains(new_name, "\\")
    THEN Reply("rename", "invalid_params")
    ELSE IF uri \notin DOMAIN open THEN Reply("rename", "null")
    ELSE
      LET text == open[uri]
          sym_ == symbol_at_position(text, cursor, extract_text_symbols(text, uri))
      IN  IF sym_ = None THEN Reply("rename", "null")
          ELSE
          LET sym == Unwrap(sym_)
          IN  IF sym.ref_kind = "Variable"
              THEN IF ~is_renameable_variable(sym.name)
                      \/ normalize_variable_new_name(new_name) = None
                   THEN Reply("rename", "invalid_params")
                   ELSE LET refs == find_variable_references_at_position(text, cursor, TRUE)
                        IN  IF refs = <<>> THEN Reply("rename", "null")
                            ELSE [Reply("rename", "ok") EXCEPT !.edits =
                                    [i \in 1..Len(refs) |->
                                       [uri |-> uri, line |-> refs[i],
                                        new_text |-> Unwrap(normalize_variable_new_name(
                                                               new_name))]]]
              ELSE
              LET target == target_of(ix, sym, ord)
                  property_new_name ==
                      IF target.kind = "Property" THEN normalize_property_new_name(new_name)
                      ELSE None
                  found == resolve_fqn(ix, builtin_lookup(sym, target), ord)
                  refs  == references_loop(ix, open, on_disk, ord, target.fqn, target.kind,
                                           TRUE)
              IN  IF target.kind = "Property" /\ property_new_name = None
                  THEN Reply("rename", "invalid_params")
                  ELSE IF IsSome(found) /\ is_builtin(Unwrap(found))
                  THEN Reply("rename", "invalid_params")
                  ELSE IF refs = <<>> THEN Reply("rename", "null")
                  ELSE [Reply("rename", "ok") EXCEPT !.edits =
                          [i \in 1..Len(refs) |->
                             [uri |-> refs[i].uri, line |-> refs[i].line,
                              new_text |-> new_text_at(
                                  Unwrap(source_of(open, on_disk, refs[i].uri)),
                                  refs[i].line, target.kind, property_new_name, new_name)]]]

(* prepare_rename: the reply to (uri, cursor) *)
prepare_rename(ix, open, uri, cursor, ord) ==
    IF uri \notin DOMAIN open THEN Reply("prepare_rename", "null")
    ELSE
      LET text == open[uri]
          sym_ == symbol_at_position(text, cursor, extract_text_symbols(text, uri))
      IN  IF sym_ = None THEN Reply("prepare_rename", "null")
          ELSE
          LET sym      == Unwrap(sym_)
              resolved == resolve_fqn_with_fallback(ix, sym.fqn, sym.ref_kind, ord)
          IN  IF sym.ref_kind = "Variable"
              THEN IF is_renameable_variable(sym.name) THEN Reply("prepare_rename", "ok")
                   ELSE Reply("prepare_rename", "null")
              ELSE IF IsSome(resolved) /\ is_builtin(Unwrap(resolved))
              THEN Reply("prepare_rename", "null")
              ELSE Reply("prepare_rename", "ok")

----------------------------------------------------------------------------
(* The server answering references, prepareRename and rename: the stubs,   *)
(* one library file on disk and one document the editor opens, edits and   *)
(* closes. Here open_files maps a URI to the text its parser holds and     *)
(* last_pub is the diagnostics list of the last publication.               *)

(* the stub file: function s() {} *)
StubText == [namespace |-> None, use_statements |-> <<>>,
             nodes |-> <<Node("function_definition", <<"s">>)>>]

TextShapes ==
    {None, Some(<<"App">>)} \X {<<>>, <<LibClass>>} \X TextKinds
    \X {<<"x">>, <<"s">>} \X BOOLEAN \X (0..MaxUses) \X BOOLEAN

(* the texts of the document: an import only before uses of the imported  *)
(* class, the stub's name only for a function, a statement that does not  *)
(* parse only next to classes, a namespace only around classes and        *)
(* functions                                                              *)
DocumentTexts ==
    {PhpText(q[1], q[2], q[3], q[4], q[5], q[6], q[7]) :
        q \in {p \in TextShapes :
                  /\ (p[5] \/ p[6] > 0)
                  /\ (p[2] # <<>> => (p[3] = "Class" /\ p[4] = <<"x">> /\ ~p[5]))
                  /\ (p[4] = <<"s">> => p[3] = "Function")
                  /\ (p[3] = "Variable" => ~p[5])
                  /\ (p[7] => p[3] = "Class")
                  /\ (p[1] # None => p[3] \in {"Class", "Function"})}}

Cursors == 1..(MaxUses + 2)

(* new names: identifiers, a variable name, a name that starts with a     *)
(* digit, one with an illegal character, and the ones rename tests for    *)
NewNames ==
    {<<"n">>, <<"n", "1">>, <<"$", "n">>, <<"1", "n">>, <<"n", "-">>,
     <<>>, <<"n", " ", "n">>, <<"App", "\\", "n">>}

(* the editor has no request in flight and no reply to read *)
Idle == request = None /\ applied = None /\ reply = NoReply

Publication(by, diagnostics) == Some([by |-> by, diagnostics |-> diagnostics])

(* load_stubs, before the workspace is indexed *)
LoadStubs ==
    /\ DOMAIN file_symbols = {}
    /\ Idle
    /\ SetIndex(update_file(cur, StubUri, mark_builtin(extract_text_symbols(StubText, StubUri))))
    /\ UNCHANGED <<open_files, last_pub, qvars, outside_requests>>

(* the scan indexes the library file from disk *)
ScanLibrary ==
    /\ Idle
    /\ Library \notin DOMAIN file_symbols
    /\ SetIndex(update_file(cur, Library, extract_text_symbols(disk[Library], Library)))
    /\ UNCHANGED <<open_files, last_pub, qvars, outside_requests>>

(* did_open and did_change with the full text: parse, update the index,   *)
(* publish the diagnostics                                                *)
SetText(by, text) ==
    LET ix == update_file(cur, Document, extract_text_symbols(text, Document))
    IN  /\ open_files' = MapInsert(open_files, Document, text)
        /\ SetIndex(ix)
        /\ \E ord \in IterOrders(ix) :
              last_pub' = Publication(by, compute_text_diagnostics(Document, text, ix, ord))
        /\ disk' = MapRemove(disk, Document)
        /\ reply' = NoReply
        /\ UNCHANGED <<request, applied, outside_requests>>

OpenText(text) ==
    /\ Idle
    /\ Document \notin DOMAIN open_files
    /\ Document \in DOMAIN disk => text = disk[Document]
    /\ SetText("did_open", text)

ChangeText(text) ==
    /\ Idle
    /\ Document \in DOMAIN open_files
    /\ text # open_files[Document]
    /\ SetText("did_change", text)

(* did_close; the editor has saved the buffer *)
CloseText ==
    /\ Idle
    /\ Document \in DOMAIN open_files
    /\ open_files' = MapRemove(open_files, Document)
    /\ disk' = MapInsert(disk, Document, open_files[Document])
    /\ last_pub' = Publication("did_close", <<>>)
    /\ reply' = NoReply
    /\ UNCHANGED <<ivars, request, applied, outside_requests>>

RenameRequest(cursor, new_name) ==
    /\ Idle
    /\ \E ord \in IterOrders(cur) :
          reply' = [rename(cur, open_files, disk, Document, cursor, new_name, ord)
                       EXCEPT !.cursor = cursor, !.new_name = new_name]
    /\ UNCHANGED <<ivars, open_files, last_pub, disk, request, applied, outside_requests>>

PrepareRenameRequest(cursor) ==
    /\ Idle
    /\ \E ord \in IterOrders(cur) :
          reply' = [prepare_rename(cur, open_files, Document, cursor, ord)
                       EXCEPT !.cursor = cursor]
    /\ UNCHANGED <<ivars, open_files, last_pub, disk, request, applied, outside_requests>>

(* references: up to the loop over index.file_symbols *)
ReferencesStart(cursor, include_declaration) ==
    /\ Idle
    /\ LET sym_ == IF Document \in DOMAIN open_files
                   THEN symbol_at_position(open_files[Document], cursor,
                            extract_text_symbols(open_files[Document], Document))
                   ELSE None
       IN  IF sym_ = None
           THEN /\ reply' = [Reply("references", "null") EXCEPT !.cursor = cursor]
                /\ request' = request
           ELSE IF Unwrap(sym_).ref_kind = "Variable"
           THEN LET refs == find_variable_references_at_position(
                                open_files[Document], cursor, include_declaration)
                IN  /\ reply' = [Reply("references", IF refs = <<>> THEN "null" ELSE "ok")
                                    EXCEPT !.cursor = cursor,
                                           !.locations = [i \in 1..Len(refs) |->
                                               [uri |-> Document, line |-> refs[i]]]]
                    /\ request' = request
           ELSE \E ord \in IterOrders(cur) :
                   /\ request' = Some([cursor |-> cursor,
                                       include_declaration |-> include_declaration,
                                       target |-> target_of(cur, Unwrap(sym_), ord),
                                       todo |-> ord, locations |-> <<>>,
                                       cancelled |-> FALSE])
                   /\ reply' = NoReply
    /\ UNCHANGED <<ivars, open_files, last_pub, disk, applied, outside_requests>>

(* one pass of the loop: no await and no test of a cancellation *)
ReferencesFile ==
    /\ request # None
    /\ Unwrap(request).todo # <<>>
    /\ LET r == Unwrap(request)
       IN  request' = Some([r EXCEPT
               !.todo = Tail(@),
               !.locations = @ \o references_in(cur, open_files, disk, Head(r.todo),
                                                r.target.fqn, r.target.kind,
                                                r.include_declaration)])
    /\ UNCHANGED <<ivars, open_files, last_pub, disk, reply, applied, outside_requests>>

ReferencesReturn ==
    /\ request # None
    /\ Unwrap(request).todo = <<>>
    /\ LET r == Unwrap(request)
       IN  reply' = [Reply("references", IF r.locations = <<>> THEN "null" ELSE "ok")
                        EXCEPT !.cursor = r.cursor, !.locations = r.locations,
                               !.cancelled = r.cancelled]
    /\ request' = None
    /\ UNCHANGED <<ivars, open_files, last_pub, disk, applied, outside_requests>>

(* the editor cancels the request while files are left to visit *)
CancelRequest ==
    /\ request # None
    /\ Unwrap(request).todo # <<>>
    /\ ~Unwrap(request).cancelled
    /\ request' = Some([Unwrap(request) EXCEPT !.cancelled = TRUE])
    /\ UNCHANGED <<ivars, open_files, last_pub, disk, reply, applied, outside_requests>>

(* the editor reads the reply *)
ReceiveReply ==
    /\ reply # NoReply
    /\ reply' = NoReply
    /\ UNCHANGED <<ivars, open_files, last_pub, disk, request, applied, outside_requests>>

(* a PHP identifier: a letter or underscore, then letters, digits and     *)
(* underscores; a variable or property may be given with its `$`          *)
valid_identifier(name) ==
    /\ name # <<>>
    /\ Head(name) = "_" \/ is_ascii_alphabetic(Head(name))
    /\ \A i \in 2..Len(name) : name[i] = "_" \/ is_ascii_alphanumeric(name[i])

valid_new_name(ref_kind, new_name) ==
    IF ref_kind \in {"Variable", "PropertyAccess"}
    THEN valid_identifier(strip_prefix(new_name, "$"))
    ELSE valid_identifier(new_name)

(* the symbol under the cursor of the last request, on the open document *)
UnderCursor ==
    IF Document \in DOMAIN open_files
    THEN symbol_at_position(open_files[Document], reply.cursor,
                            extract_text_symbols(open_files[Document], Document))
    ELSE None

(* a text with the edits of one file applied: each edit replaces a name *)
apply_edits(text, uri, edits) ==
    [text EXCEPT !.nodes =
        [i \in 1..Len(text.nodes) |->
            LET hits == {j \in 1..Len(edits) : edits[j].uri = uri /\ edits[j].line = i}
            IN  IF hits = {} THEN text.nodes[i]
                ELSE [text.nodes[i] EXCEPT !.text = edits[CHOOSE j \in hits : TRUE].new_text]]]

overlapping(edits) ==
    \E i, j \in 1..Len(edits) :
        i # j /\ edits[i].uri = edits[j].uri /\ edits[i].line = edits[j].line

(* the index and the publication after the texts of the document and of  *)
(* the library changed: did_change, and the library re-indexed from disk *)
Reindex(by, document, library) ==
    LET ix1 == update_file(cur, Document, extract_text_symbols(document, Document))
        ix  == IF Library \in DOMAIN file_symbols
               THEN update_file(ix1, Library, extract_text_symbols(library, Library))
               ELSE ix1
    IN  /\ open_files' = MapInsert(open_files, Document, document)
        /\ disk' = MapInsert(disk, Library, library)
        /\ SetIndex(ix)
        /\ \E ord \in IterOrders(ix) :
              last_pub' = Publication(by, compute_text_diagnostics(Document, document, ix, ord))

(* the editor applies the WorkspaceEdit of a rename to a valid name and   *)
(* the changed files are indexed again; edits that overlap are invalid,   *)
(* and an editor may refuse the whole WorkspaceEdit                       *)
ApplyRename ==
    /\ request = None /\ applied = None
    /\ reply.op = "rename" /\ reply.status = "ok"
    /\ valid_new_name(Unwrap(UnderCursor).ref_kind, reply.new_name)
    /\ \E ord \in IterOrders(cur), refused \in BOOLEAN :
          LET sym    == Unwrap(UnderCursor)
              target == target_of(cur, sym, ord)
              s      == IF sym.ref_kind = "Variable" THEN None
                        ELSE resolve_fqn(cur, target.fqn, ord)
              sites  == IF sym.ref_kind = "Variable" THEN {}
                        ELSE Range(references_loop(cur, open_files, disk, ord, target.fqn,
                                                   target.kind, TRUE))
          IN  /\ refused => overlapping(reply.edits)
              /\ applied' = Some([symbol |-> s, new_name |-> reply.new_name,
                                  before |-> sites, refused |-> refused,
                                  undo |-> [document |-> open_files[Document],
                                            library |-> disk[Library]]])
              /\ IF refused
                 THEN UNCHANGED <<ivars, open_files, disk, last_pub>>
                 ELSE /\ Reindex("did_change",
                                 apply_edits(open_files[Document], Document, reply.edits),
                                 apply_edits(disk[Library], Library, reply.edits))
                      /\ UNCHANGED last_call
    /\ reply' = NoReply
    /\ UNCHANGED <<request, outside_requests>>

(* the editor undoes the rename *)
UndoRename ==
    /\ applied # None
    /\ Reindex("did_change", Unwrap(applied).undo.document, Unwrap(applied).undo.library)
    /\ applied' = None
    /\ UNCHANGED <<request, reply, outside_requests>>

NextRequests ==
    \/ LoadStubs
    \/ ScanLibrary
    \/ \E text \in DocumentTexts : OpenText(text)
    \/ \E text \in DocumentTexts : ChangeText(text)
    \/ CloseText
    \/ \E cursor \in Cursors, new_name \in NewNames : RenameRequest(cursor, new_name)
    \/ \E cursor \in Cursors : PrepareRenameRequest(cursor)
    \/ \E cursor \in Cursors, include_declaration \in BOOLEAN :
          ReferencesStart(cursor, include_declaration)
    \/ ReferencesFile
    \/ ReferencesReturn
    \/ CancelRequest
    \/ ReceiveReply
    \/ ApplyRename
    \/ UndoRename

SpecRequests == Init /\ [][NextRequests]_vars

----------------------------------------------------------------------------
(* Composer: the namespace map and lazy indexing. A string (an FQN, a     *)
(* prefix, a path) is a sequence of tokens; "\\", "::", "/" and ".php"    *)
(* are tokens of their own.                                               *)

(* str::strip_prefix(prefix): the rest of the string, or None *)
str_strip_prefix(s, prefix) ==
    IF Len(prefix) <= Len(s) /\ SubSeq(s, 1, Len(prefix)) = prefix
    THEN Some(SubSeq(s, Len(prefix) + 1, Len(s)))
    ELSE None

(* str::replace(from, "/") *)
replace_with_slash(s, from) == [i \in 1..Len(s) |-> IF s[i] \in from THEN "/" ELSE s[i]]

is_absolute(path) == path # <<>> /\ Head(path) = "/"

(* Path::join: an absolute argument replaces the base *)
join(base, path) ==
    IF is_absolute(path) THEN path
    ELSE IF base = <<>> \/ base[Len(base)] = "/" THEN base \o path
    ELSE base \o <<"/">> \o path

(* the components of a path, `..` resolved as the file system does: what  *)
(* Path::exists looks at                                                  *)
RECURSIVE components(_, _, _)
components(path, done, name) ==
    LET closed == IF name = <<>> THEN done
                  ELSE IF name = <<"..">> THEN SubSeq(done, 1, Len(done) - 1)
                  ELSE Append(done, name)
    IN  IF path = <<>> THEN closed
        ELSE IF Head(path) = "/" THEN components(Tail(path), closed, <<>>)
        ELSE components(Tail(path), done, Append(name, Head(path)))

canonical(path) == [absolute |-> is_absolute(path), names |-> components(path, <<>>, <<>>)]

(* the paths of one autoload list: for each prefix that strip_prefix      *)
(* accepts and each of its directories, dir.join(relative_path)           *)
RECURSIVE autoload_paths(_, _, _)
autoload_paths(entries, fqn, separators) ==
    IF entries = <<>> THEN <<>>
    ELSE LET relative == str_strip_prefix(fqn, Head(entries).prefix)
         IN  (IF relative = None THEN <<>>
              ELSE LET relative_path ==
                           replace_with_slash(Unwrap(relative), separators) \o <<".php">>
                   IN  [i \in 1..Len(Head(entries).dirs) |->
                          join(Head(entries).dirs[i], relative_path)])
             \o autoload_paths(Tail(entries), fqn, separators)

(* NamespaceMap::resolve_class_to_paths *)
resolve_class_to_paths(ns_map, fqn) ==
    autoload_paths(ns_map.psr4, fqn, {"\\"}) \o autoload_paths(ns_map.psr0, fqn, {"\\", "_"})

(* resolve_vendor_paths: the PSR-4 prefixes of the installed packages;    *)
(* None without an installed.json or without a matching prefix            *)
RECURSIVE package_paths(_, _, _)
package_paths(packages, fqn, vendor_dir) ==
    IF packages = <<>> THEN <<>>
    ELSE LET pkg      == Head(packages)
             relative == str_strip_prefix(fqn, pkg.prefix)
             pkg_dir  == IF str_strip_prefix(pkg.install_path, <<"..", "/">>) # None
                         THEN join(join(vendor_dir, <<"composer">>), pkg.install_path)
                         ELSE join(vendor_dir, pkg.install_path)
         IN  (IF relative = None THEN <<>>
              ELSE LET relative_path ==
                           replace_with_slash(Unwrap(relative), {"\\"}) \o <<".php">>
                   IN  [i \in 1..Len(pkg.dirs) |->
                          join(join(pkg_dir, pkg.dirs[i]), relative_path)])
             \o package_paths(Tail(packages), fqn, vendor_dir)

resolve_vendor_paths(fqn, vendor_dir, installed) ==
    IF installed = None THEN None
    ELSE LET paths == package_paths(Unwrap(installed), fqn, vendor_dir)
         IN  IF paths = <<>> THEN None ELSE Some(paths)

path_to_uri(path) == <<"file://">> \o path

(* Path::exists and read_to_string on the files of the workspace *)
exists(files, path) == \E f \in DOMAIN files : canonical(f) = canonical(path)

read_to_string(files, path) == files[CHOOSE f \in DOMAIN files : canonical(f) = canonical(path)]

(* the order in which DashMap iterates the indexed files, from a ranking  *)
(* of the URIs                                                            *)
OrdOf(ix, rank) == SelectSeq(rank, LAMBDA uri : uri \in DOMAIN ix.file_symbols)

(* `all_paths.is_empty()`: vendor paths only without a Composer candidate *)
is_empty(candidate_paths) == candidate_paths = <<>>

(* the candidate paths of resolve_fqn_lazy *)
all_paths(ns_map, root, disk_now, fqn) ==
    LET candidate_paths == resolve_class_to_paths(ns_map, fqn)
        vendor_dir      == join(root, <<"vendor">>)
    IN  IF /\ disk_now.vendor # None
           /\ Unwrap(disk_now.vendor).autoload_psr4
           /\ is_empty(candidate_paths)
        THEN LET vendor_paths == resolve_vendor_paths(fqn, vendor_dir,
                                                      Unwrap(disk_now.vendor).installed)
             IN  IF vendor_paths = None THEN candidate_paths
                 ELSE candidate_paths \o Unwrap(vendor_paths)
        ELSE candidate_paths

(* the loop over all_paths: index each file that exists, retry, return at *)
(* the first hit                                                          *)
RECURSIVE lazy_loop(_, _, _, _, _, _)
lazy_loop(ix, paths, root, files, fqn, rank) ==
    IF paths = <<>> THEN [index |-> ix, ret |-> None]
    ELSE LET abs == IF is_absolute(Head(paths)) THEN Head(paths) ELSE join(root, Head(paths))
         IN  IF exists(files, abs)
             THEN LET uri   == path_to_uri(abs)
                      ix1   == update_file(ix, uri,
                                   extract_text_symbols(read_to_string(files, abs), uri))
                      again == resolve_fqn(ix1, fqn, OrdOf(ix1, rank))
                  IN  IF IsSome(again) THEN [index |-> ix1, ret |-> again]
                      ELSE lazy_loop(ix1, Tail(paths), root, files, fqn, rank)
             ELSE lazy_loop(ix, Tail(paths), root, files, fqn, rank)

(* resolve_fqn_lazy: the index it leaves and the symbol it returns *)
resolve_fqn_lazy(ix, ns_map, root, disk_now, fqn, rank) ==
    LET direct == resolve_fqn(ix, fqn, OrdOf(ix, rank))
    IN  IF IsSome(direct) THEN [index |-> ix, ret |-> direct]
        ELSE IF ns_map = None \/ root = None THEN [index |-> ix, ret |-> None]
        ELSE lazy_loop(ix, all_paths(Unwrap(ns_map), Unwrap(root), disk_now, fqn),
                       Unwrap(root), disk_now.files, fqn, rank)

----------------------------------------------------------------------------
(* The workspace of the lazy resolver: /project with a composer.json, a   *)
(* vendor directory with one installed package, and the file of the class *)
(* V\A in the project or in the package.                                  *)

Root == <<"/", "project">>

SrcDir == <<"/", "project", "/", "src", "/">>

LibDir == <<"/", "project", "/", "lib", "/">>

SrcA == <<"/", "project", "/", "src", "/", "A", ".php">>

PkgA == <<"/", "project", "/", "vendor", "/", "pkg", "/", "src", "/", "A", ".php">>

(* namespace V; class A { function x() {} } *)
VendorText == PhpText(Some(<<"V">>), <<>>, "Method", <<"x">>, TRUE, 0, FALSE)

Prefixes == {<<>>, <<"V">>, <<"V", "\\">>, <<"W", "\\">>}

AutoloadLists ==
    {<<>>} \cup {<<[prefix |-> p, dirs |-> d]>> :
                    p \in Prefixes, d \in {<<SrcDir>>, <<LibDir, SrcDir>>}}

NamespaceMaps ==
    {None} \cup {Some([psr4 |-> a, psr0 |-> b]) :
                    a \in AutoloadLists, b \in {<<>>, <<[prefix |-> <<"V">>, dirs |-> <<LibDir>>]>>}}

Packages ==
    {<<[prefix |-> p, install_path |-> <<"..", "/", "pkg">>, dirs |-> <<<<"src", "/">>>>]>> :
        p \in {<<"V", "\\">>, <<"W", "\\">>}}

Vendors ==
    {None} \cup {Some([autoload_psr4 |-> a, installed |-> i]) :
                    a \in BOOLEAN, i \in {None} \cup {Some(p) : p \in Packages}}

FileSets == {EmptyMap, MapInsert(EmptyMap, SrcA, VendorText),
             MapInsert(EmptyMap, PkgA, VendorText),
             MapInsert(MapInsert(EmptyMap, SrcA, VendorText), PkgA, VendorText)}

LazyUris == {path_to_uri(SrcA),
             path_to_uri(<<"/", "project", "/", "vendor", "/", "composer", "/",
                           "..", "/", "pkg", "/", "src", "/", "A", ".php">>)}

LazyQueries == {<<"V">>, <<"V", "\\">>, <<"V", "\\", "A">>, <<"V", "\\", "A", "::", "x">>,
                <<"W", "\\", "A">>}

(* initialize and initialized: the root, and the namespace map of the     *)
(* composer.json found there                                              *)
Initialize(ns_map, vendor, files) ==
    /\ workspace_root = None
    /\ workspace_root' = Some(Root)
    /\ namespace_map' = ns_map
    /\ filesystem' = [files |-> files, vendor |-> vendor]
    /\ UNCHANGED <<lazy, types, functions, constants, file_symbols, outside_lazy>>

(* a handler calls resolve_fqn_lazy(fqn) *)
LazyCall(fqn, rank) ==
    /\ workspace_root # None
    /\ LET r == resolve_fqn_lazy(cur, namespace_map, workspace_root, filesystem, fqn, rank)
       IN  /\ SetIndex(r.index)
           /\ lazy' = [fqn |-> fqn,
                       paths |-> IF namespace_map = None THEN <<>>
                                 ELSE resolve_class_to_paths(Unwrap(namespace_map), fqn),
                       missed |-> resolve_fqn(cur, fqn, OrdOf(cur, rank)) = None,
                       ret |-> r.ret]
    /\ UNCHANGED <<workspace_root, namespace_map, filesystem, outside_lazy>>

NextLazy ==
    \/ \E ns_map \in NamespaceMaps, vendor \in Vendors, files \in FileSets :
          Initialize(ns_map, vendor, files)
    \/ \E fqn \in LazyQueries, rank \in Perms(LazyUris) : LazyCall(fqn, rank)

SpecLazy == Init /\ [][NextLazy]_vars

----------------------------------------------------------------------------
(* update_file called from two threads for one URI: did_change on the     *)
(* server's task and the scan (or lazy indexing) on a worker. Each DashMap *)
(* operation is atomic; the calls interleave between operations.          *)

Callers == {"did_change", "scan"}

(* the texts the two callers read: the saved file and unsaved edits of it *)
UpdateSources ==
    {<<>>, <<SimpleDecl("Class", "A")>>, <<SimpleDecl("Class", "B")>>,
     <<SimpleDecl("Class", "A"), SimpleDecl("Function", "f")>>}

(* update_file entered: the digest is the argument *)
UpdateCall(t, src) ==
    /\ updating[t].pc \in {"idle", "returned"}
    /\ updating' = [updating EXCEPT ![t] =
                       [pc |-> "remove_file", i |-> 1, old |-> <<>>,
                        digest |-> extract_file_symbols(src, Document)]]
    /\ UNCHANGED <<ivars, outside_update>>

(* remove_file: `self.file_symbols.remove(uri)` hands out the old digest *)
UpdateRemoveFile(t) ==
    /\ updating[t].pc = "remove_file"
    /\ LET old == IF Document \in DOMAIN file_symbols
                  THEN file_symbols[Document].symbols ELSE <<>>
       IN  /\ file_symbols' = MapRemove(file_symbols, Document)
           /\ updating' = [updating EXCEPT
                  ![t].old = old,
                  ![t].pc = IF old # <<>> THEN "remove"
                            ELSE IF updating[t].digest.symbols # <<>> THEN "insert"
                            ELSE "store"]
    /\ UNCHANGED <<types, functions, constants, last_call, outside_update>>

(* remove_file: one iteration of the loop over the old symbols *)
UpdateRemoveSymbol(t) ==
    /\ updating[t].pc = "remove"
    /\ LET u    == updating[t]
           ix   == remove_symbol(cur, u.old[u.i])
           last == u.i = Len(u.old)
       IN  /\ types' = ix.types
           /\ functions' = ix.functions
           /\ constants' = ix.constants
           /\ updating' = [updating EXCEPT
                  ![t].i = IF last THEN 1 ELSE u.i + 1,
                  ![t].pc = IF ~last THEN "remove"
                            ELSE IF u.digest.symbols # <<>> THEN "insert"
                            ELSE "store"]
    /\ UNCHANGED <<file_symbols, last_call, outside_update>>

(* update_file: one iteration of the loop over the new symbols *)
UpdateInsertSymbol(t) ==
    /\ updating[t].pc = "insert"
    /\ LET u    == updating[t]
           ix   == insert_symbol(cur, u.digest.symbols[u.i])
           last == u.i = Len(u.digest.symbols)
       IN  /\ types' = ix.types
           /\ functions' = ix.functions
           /\ constants' = ix.constants
           /\ updating' = [updating EXCEPT
                  ![t].i = IF last THEN 1 ELSE u.i + 1,
                  ![t].pc = IF last THEN "store" ELSE "insert"]
    /\ UNCHANGED <<file_symbols, last_call, outside_update>>

(* update_file: `self.file_symbols.insert(uri, file_symbols)`, and return *)
UpdateStore(t) ==
    /\ updating[t].pc = "store"
    /\ file_symbols' = MapInsert(file_symbols, Document, updating[t].digest)
    /\ updating' = [updating EXCEPT ![t].pc = "returned"]
    /\ UNCHANGED <<types, functions, constants, last_call, outside_update>>

NextUpdate ==
    \/ \E t \in Callers, src \in UpdateSources : UpdateCall(t, src)
    \/ \E t \in Callers : UpdateRemoveFile(t)
    \/ \E t \in Callers : UpdateRemoveSymbol(t)
    \/ \E t \in Callers : UpdateInsertSymbol(t)
    \/ \E t \in Callers : UpdateStore(t)

SpecUpdate == Init /\ [][NextUpdate]_vars

----------------------------------------------------------------------------
(* The guards of open_files. The handlers run on the server task, one     *)
(* synchronous stretch at a time; the task spawned by initialized runs on *)
(* a worker thread beside it. A DashMap guard is a blocking lock on the   *)
(* slot of the key: a writer waits, on its thread, until no read guard is *)
(* left. A message to the client is complete once the transport has room  *)
(* for it, and the transport is emptied by the server task.               *)

Notifications == {"did_open", "did_change", "did_close"}

Polling == [at |-> "poll", job |-> "none"]

(* the server task takes the next message of the editor *)
Receive(kind) ==
    /\ server_thread.at = "poll"
    /\ received <= MaxEdits
    /\ kind \notin suspended
    /\ received' = received + 1
    /\ server_thread' = [at |-> "start", job |-> kind]
    /\ UNCHANGED <<open_files, scan, read_guards, transport_full, suspended, outside_guards>>

(* open_files.insert, get_mut or remove: write access to the slot, and    *)
(* the synchronous work under it                                          *)
WriteAccess ==
    /\ server_thread.at = "start"
    /\ server_thread.job \in Notifications
    /\ read_guards = {}
    /\ open_files' = IF server_thread.job = "did_open" THEN MapInsert(open_files, Document, 0)
                     ELSE IF server_thread.job = "did_close" THEN MapRemove(open_files, Document)
                     ELSE open_files
    /\ server_thread' = [server_thread EXCEPT !.at = "publish"]
    /\ UNCHANGED <<scan, read_guards, transport_full, suspended, received, outside_guards>>

(* client.publish_diagnostics(..).await at the end of a notification: the *)
(* handler returns, or is suspended while the transport is full           *)
HandlerPublish ==
    /\ server_thread.at = "publish"
    /\ IF transport_full
       THEN /\ suspended' = suspended \cup {server_thread.job}
            /\ UNCHANGED transport_full
       ELSE /\ transport_full' = TRUE
            /\ UNCHANGED suspended
    /\ server_thread' = Polling
    /\ UNCHANGED <<open_files, scan, read_guards, received, outside_guards>>

(* a suspended handler is polled again once the transport has room *)
HandlerResume(kind) ==
    /\ server_thread.at = "poll"
    /\ kind \in suspended
    /\ ~transport_full
    /\ transport_full' = TRUE
    /\ suspended' = suspended \ {kind}
    /\ UNCHANGED <<open_files, scan, read_guards, server_thread, received, outside_guards>>

(* the server task writes the queued message to the editor *)
Drain ==
    /\ server_thread.at = "poll"
    /\ transport_full
    /\ transport_full' = FALSE
    /\ UNCHANGED <<open_files, scan, read_guards, server_thread, suspended, received,
                   outside_guards>>

(* rename: `self.open_files.get(&uri_str)`, kept to the end of the handler *)
RenameGet ==
    /\ server_thread = [at |-> "start", job |-> "rename"]
    /\ read_guards' = read_guards \cup {"rename"}
    /\ server_thread' = [server_thread EXCEPT !.at = "loop"]
    /\ UNCHANGED <<open_files, scan, transport_full, suspended, received, outside_guards>>

(* rename: `self.open_files.get(&file_uri)` for an indexed file, dropped  *)
(* at the end of the iteration                                            *)
RenameFurther ==
    /\ server_thread = [at |-> "loop", job |-> "rename"]
    /\ server_thread' = [server_thread EXCEPT !.at = "return"]
    /\ UNCHANGED <<open_files, scan, read_guards, transport_full, suspended, received,
                   outside_guards>>

RenameReturn ==
    /\ server_thread = [at |-> "return", job |-> "rename"]
    /\ read_guards' = read_guards \ {"rename"}
    /\ server_thread' = Polling
    /\ UNCHANGED <<open_files, scan, transport_full, suspended, received, outside_guards>>

(* initialized spawns the task; index_workspace ends with                 *)
(* client.log_message(..).await                                           *)
ScanSpawned ==
    /\ scan = "not_started"
    /\ scan' = "scanning"
    /\ UNCHANGED <<open_files, read_guards, transport_full, server_thread, suspended,
                   received, outside_guards>>

ScanLogMessage ==
    /\ scan = "scanning"
    /\ ~transport_full
    /\ transport_full' = TRUE
    /\ scan' = "republish"
    /\ UNCHANGED <<open_files, read_guards, server_thread, suspended, received,
                   outside_guards>>

(* `for entry in open_files.iter()`: the entry holds a read guard on its  *)
(* slot; compute_diagnostics under it                                     *)
RepublishEntry ==
    /\ scan = "republish"
    /\ IF Document \in DOMAIN open_files
       THEN /\ read_guards' = read_guards \cup {"scan"}
            /\ scan' = "computed"
       ELSE /\ scan' = "done"
            /\ UNCHANGED read_guards
    /\ UNCHANGED <<open_files, transport_full, server_thread, suspended, received,
                   outside_guards>>

(* the guard is dropped at the end of the loop body, after the await *)
end_of_iteration(guards) == guards \ {"scan"}

(* `reindex_client.publish_diagnostics(uri, diags, None).await` with the  *)
(* entry alive: complete at once with room in the transport, pending      *)
(* otherwise                                                              *)
RepublishPublish ==
    /\ scan = "computed"
    /\ IF transport_full
       THEN /\ scan' = "awaiting"
            /\ UNCHANGED <<read_guards, transport_full>>
       ELSE /\ transport_full' = TRUE
            /\ read_guards' = end_of_iteration(read_guards)
            /\ scan' = "done"
    /\ UNCHANGED <<open_files, server_thread, suspended, received, outside_guards>>

RepublishResume ==
    /\ scan = "awaiting"
    /\ ~transport_full
    /\ transport_full' = TRUE
    /\ read_guards' = end_of_iteration(read_guards)
    /\ scan' = "done"
    /\ UNCHANGED <<open_files, server_thread, suspended, received, outside_guards>>

ServerTask ==
    \/ \E kind \in Notifications \cup {"rename"} : Receive(kind)
    \/ WriteAccess
    \/ HandlerPublish
    \/ \E kind \in Notifications : HandlerResume(kind)
    \/ Drain
    \/ RenameGet
    \/ RenameFurther
    \/ RenameReturn

BackgroundTask ==
    \/ ScanSpawned
    \/ ScanLogMessage
    \/ RepublishEntry
    \/ RepublishPublish
    \/ RepublishResume

NextGuards == ServerTask \/ BackgroundTask

(* both threads are scheduled as long as they have a step to take *)
SpecGuards == Init /\ [][NextGuards]_vars /\ WF_vars(ServerTask) /\ WF_vars(BackgroundTask)

----------------------------------------------------------------------------
(* find_references_in_file for a method, on files with accesses through   *)
(* objects and through scopes. `object` is the class of the expression    *)
(* left of `->`; the walk does not look at it.                            *)

MemberCall(object) ==
    [node |-> "member_call_expression", text |-> <<MemberName>>, object |-> object]

ScopedCall(scope) ==
    [node |-> "scoped_call_expression", text |-> <<MemberName>>, scope |-> scope]

AccessSites ==
    {MemberCall(<<"A">>), MemberCall(<<"B">>), ScopedCall(<<"A">>), ScopedCall(<<"B">>),
     ScopedCall(<<"self">>), ScopedCall(<<"static">>)}

SiteLists == {<<>>} \cup {<<site>> : site \in AccessSites}

(* class A { function m() {} <site> }  class B { [function m() {}] <site> } *)
MemberTexts ==
    {[namespace |-> None, use_statements |-> <<>>,
      nodes |-> <<Node("class_declaration", <<"A">>),
                  Node("method_declaration", <<MemberName>>)>>
                \o in_a
                \o <<Node("class_declaration", <<"B">>)>>
                \o (IF declared_in_b THEN <<Node("method_declaration", <<MemberName>>)>>
                    ELSE <<>>)
                \o in_b] :
        in_a \in SiteLists, in_b \in SiteLists, declared_in_b \in BOOLEAN}

MemberTargets == {<<"A", "::", MemberName>>, <<"B", "::", MemberName>>}

FindMemberReferences(text, target_fqn, include_declaration) ==
    /\ evaluated' = [op |-> "find_references_in_file", text |-> text,
                     target_fqn |-> target_fqn,
                     result |-> find_references_in_file(
                                    text, extract_text_symbols(text, Document),
                                    target_fqn, "Method", include_declaration)]
    /\ UNCHANGED outside_evaluated

NextMemberRefs ==
    \E text \in MemberTexts, target_fqn \in MemberTargets, include_declaration \in BOOLEAN :
        FindMemberReferences(text, target_fqn, include_declaration)

SpecMemberRefs == Init /\ [][NextMemberRefs]_vars

----------------------------------------------------------------------------
(* resolve_function_name and resolve_constant_name on one name in one     *)
(* file context                                                           *)

WrittenNames == {<<"NAME">>, <<"Sub", "\\", "NAME">>, <<"\\", "NAME">>,
                 <<"\\", "Sub", "\\", "NAME">>}

Imports ==
    {UseStatement("Function", None, <<"Lib", "\\", "NAME">>),
     UseStatement("Constant", None, <<"Lib", "\\", "NAME">>),
     UseStatement("Constant", None, <<"Lib", "\\", "Sub">>),
     UseStatement("Function", Some(<<"Sub">>), <<"Lib", "\\", "f">>),
     UseStatement("Class", None, <<"Lib", "\\", "Other">>)}

ImportLists == {<<>>} \cup {<<u>> : u \in Imports} \cup {<<u, v>> : u \in Imports, v \in Imports}

ResolveNames(name, namespace, imports) ==
    LET file_syms == [symbols |-> <<>>, namespace |-> namespace, use_statements |-> <<>>,
                      imports |-> imports]
    IN  /\ evaluated' = [op |-> "resolve_name", name |-> name, file_syms |-> file_syms,
                         function_fqn |-> resolve_function_name(name, file_syms),
                         constant_fqn |-> resolve_constant_name(name, file_syms)]
        /\ UNCHANGED outside_evaluated

NextNames ==
    \E name \in WrittenNames, namespace \in {None, Some(<<"App">>)}, imports \in ImportLists :
        ResolveNames(name, namespace, imports)

SpecNames == Init /\ [][NextNames]_vars

----------------------------------------------------------------------------
(* The type of a variable at `$x->member`: the statements of the function *)
(* body before the usage, each an assignment or an if block, with the     *)
(* PHPDoc comment before it if there is one.                              *)

NewObject(class) == [node |-> "object_creation_expression", text |-> class]

Scalar == [node |-> "integer", text |-> <<"5">>]

VarDoc(var_type, tagged_var) == Some([var_type |-> var_type, tagged_var |-> tagged_var])

Assignment(left, right, doc) ==
    [stmt |-> "expression_statement", expr |-> "assignment_expression",
     left |-> left, right |-> right, doc |-> doc]

(* `$x->m();`, the statement of the usage *)
Usage == [stmt |-> "expression_statement", expr |-> "member_call_expression", doc |-> None]

IfStatement(body) == [stmt |-> "if_statement", body |-> body, doc |-> None]

assignment_rhs_for_var(stmt, var_name) ==
    IF stmt.stmt # "expression_statement" THEN None
    ELSE IF stmt.expr # "assignment_expression" THEN None
    ELSE IF stmt.left = var_name THEN Some(stmt.right)
    ELSE None

(* a named @var applies when it names the variable, an unnamed one only   *)
(* on a direct assignment to the variable                                 *)
extract_preceding_phpdoc_var_type(stmt, var_name, allow_unnamed_var_tag, file_syms) ==
    IF stmt.doc = None THEN None
    ELSE LET phpdoc == Unwrap(stmt.doc)
         IN  IF IsSome(phpdoc.tagged_var) /\ Unwrap(phpdoc.tagged_var) # var_name THEN None
             ELSE IF phpdoc.tagged_var = None /\ ~allow_unnamed_var_tag THEN None
             ELSE Some(resolve_class_name(phpdoc.var_type, file_syms))

(* try_resolve_object_type of a right-hand side: `new C` gives C *)
try_resolve_object_type(right, file_syms) ==
    IF right.node = "object_creation_expression"
    THEN Some(resolve_class_name(right.text, file_syms))
    ELSE None

(* the loop of find_variable_type_before_usage over the named children of *)
(* the body: statement i starts before the usage when it precedes the     *)
(* statement of the usage or contains it                                  *)
RECURSIVE scan_statements(_, _, _, _, _, _)
scan_statements(body, i, var_name, usage_in, file_syms, inferred) ==
    IF i > Len(body) THEN inferred
    ELSE IF i > usage_in \/ (i = usage_in /\ body[i].stmt # "if_statement") THEN inferred
    ELSE LET stmt           == body[i]
             assignment_rhs == assignment_rhs_for_var(stmt, var_name)
             doc_type       == extract_preceding_phpdoc_var_type(
                                   stmt, var_name, IsSome(assignment_rhs), file_syms)
         IN  IF IsSome(doc_type)
             THEN scan_statements(body, i + 1, var_name, usage_in, file_syms, doc_type)
             ELSE IF IsSome(assignment_rhs)
                     /\ IsSome(try_resolve_object_type(Unwrap(assignment_rhs), file_syms))
             THEN scan_statements(body, i + 1, var_name, usage_in, file_syms,
                                  try_resolve_object_type(Unwrap(assignment_rhs), file_syms))
             ELSE scan_statements(body, i + 1, var_name, usage_in, file_syms, inferred)

find_variable_type_before_usage(body, var_name, usage_in, file_syms) ==
    scan_statements(body, 1, var_name, usage_in, file_syms, None)

Bindings ==
    {Assignment(<<"x">>, NewObject(<<"A">>), None),
     Assignment(<<"x">>, NewObject(<<"B">>), None),
     Assignment(<<"x">>, Scalar, None),
     Assignment(<<"y">>, NewObject(<<"B">>), None),
     Assignment(<<"x">>, Scalar, VarDoc(<<"B">>, None)),
     Assignment(<<"y">>, Scalar, VarDoc(<<"B">>, Some(<<"x">>))),
     Assignment(<<"x">>, NewObject(<<"A">>), VarDoc(<<"B">>, Some(<<"y">>)))}

Before == {<<>>} \cup {<<b>> : b \in Bindings} \cup {<<b, c>> : b \in Bindings, c \in Bindings}

(* the statement of the usage: the usage itself, or an if block with the  *)
(* usage inside, after at most one more statement                         *)
UsageStatements ==
    {Usage, IfStatement(<<Usage>>)} \cup {IfStatement(<<b, Usage>>) : b \in Bindings}

InferVariableType(before, at) ==
    LET body      == Append(before, at)
        file_syms == [symbols |-> <<>>, namespace |-> None, use_statements |-> <<>>]
    IN  /\ evaluated' = [op |-> "infer_variable_type", body |-> body,
                         inferred |-> find_variable_type_before_usage(
                                          body, <<"x">>, Len(body), file_syms)]
        /\ UNCHANGED outside_evaluated

NextInfer == \E before \in Before, at \in UsageStatements : InferVariableType(before, at)

SpecInfer == Init /\ [][NextInfer]_vars

----------------------------------------------------------------------------
(* find_doc_comment: the siblings of a declaration, in source order. A    *)
(* comment and a declaration are named nodes, a `;` is not.               *)

Sibling(kind, text, named) == [node |-> kind, text |-> text, named |-> named]

PhpDoc == Sibling("comment", <<"/**", "This is Foo.", "*/">>, TRUE)

LineComment == Sibling("comment", <<"//", "note">>, TRUE)

Semicolon == Sibling(";", <<";">>, FALSE)

Declarations == {Sibling("class_declaration", <<"Foo">>, TRUE),
                 Sibling("function_definition", <<"bar">>, TRUE)}

Siblings == {PhpDoc, LineComment, Semicolon} \cup Declarations

Preceding ==
    {<<>>} \cup {<<a>> : a \in Siblings} \cup {<<a, b>> : a \in Siblings, b \in Siblings}
    \cup {<<a, b, c>> : a \in Siblings, b \in Siblings, c \in Siblings}

(* text.starts_with("/**") *)
starts_with_doc(text) == text # <<>> /\ Head(text) = "/**"

(* the walk over prev_sibling from the node at position i *)
RECURSIVE find_doc_comment(_, _)
find_doc_comment(siblings, i) ==
    IF i <= 1 THEN None
    ELSE LET p == siblings[i - 1]
         IN  IF p.node = "comment"
             THEN (IF starts_with_doc(p.text) THEN Some(p.text) ELSE None)
             ELSE find_doc_comment(siblings, i - 1)

(* extract_class, extract_function, ..: `find_doc_comment(node, source)` *)
ExtractDocComment(before, declaration) ==
    LET siblings == Append(before, declaration)
    IN  /\ evaluated' = [op |-> "find_doc_comment", siblings |-> siblings,
                         doc_comment |-> find_doc_comment(siblings, Len(siblings))]
        /\ UNCHANGED outside_evaluated

NextDocs ==
    \E before \in Preceding, declaration \in Declarations :
        ExtractDocComment(before, declaration)

SpecDocs == Init /\ [][NextDocs]_vars

----------------------------------------------------------------------------
(* What the stored digests declare *)

StoredSymbols == UNION {Range(file_symbols[u].symbols) : u \in DOMAIN file_symbols}

TopLevel(syms, kinds) == {s \in syms : s.kind \in kinds /\ s.parent_fqn = None}

Projection(kinds) == {s.fqn : s \in TopLevel(StoredSymbols, kinds)}

TopLevelKinds == TypeKinds \cup {"Function", "GlobalConstant"}

(* C1: an FQN is a key of types / functions / constants if and only if a   *)
(* stored digest holds a top-level symbol of the matching kind with it.    *)
C1_MapsAreProjection ==
    /\ DOMAIN types = Projection(TypeKinds)
    /\ DOMAIN functions = Projection({"Function"})
    /\ DOMAIN constants = Projection({"GlobalConstant"})

(* C2: directly after update_file(u, d), resolve_fqn(s.fqn) is s itself    *)
(* for every top-level symbol s of d.                                      *)
C2_UpdateThenResolve ==
    last_call.op = "update_file" =>
        \A s \in TopLevel(Range(file_symbols[last_call.uri].symbols), TopLevelKinds) :
            \A ord \in IterOrders(cur) : resolve_fqn(cur, s.fqn, ord) = Some(s)

(* The FQNs of a removed digest that no stored digest declares *)
StoredFqns == {s.fqn : s \in StoredSymbols}

SoleSymbols(digest) == {s \in Range(digest.symbols) : s.fqn \notin StoredFqns}

Resolves(fqn) == \E ord \in IterOrders(cur) : resolve_fqn(cur, fqn, ord) # None

HasNamesake(s) ==
    /\ s.parent_fqn # None
    /\ \E t \in StoredSymbols : t.parent_fqn = s.parent_fqn /\ t.name = s.name

Parents(c) ==
    IF c \in DOMAIN types
    THEN Range(types[c].extends) \cup Range(types[c].implements)
    ELSE {}

RECURSIVE Closure(_, _)
Closure(S, n) ==
    IF n = 0 THEN S ELSE Closure(S \cup UNION {Parents(c) : c \in S}, n - 1)

Ancestors(c) == Closure(Parents(c), Cardinality(DOMAIN types))

DeclaresNamed(c, name) ==
    \E t \in StoredSymbols : t.parent_fqn = Some(c) /\ t.name = name

(* The FQN a member has on class c: c::m, and c::$m for a property *)
MemberFqnOn(c, s) ==
    IF s.kind = "Property" THEN c \o <<"::", "$">> \o s.name
    ELSE c \o <<"::">> \o s.name

(* C9: for a class C and a member m that C does not declare but an ancestor *)
(* reachable through extends / implements does, resolve_fqn of the member's *)
(* FQN on C returns an ancestor's member symbol of that name and kind.      *)
C9_InheritedMemberResolves ==
    \A c \in DOMAIN types : \A s \in StoredSymbols :
        (/\ s.parent_fqn # None
         /\ Unwrap(s.parent_fqn) \in Ancestors(c) \ {c}
         /\ ~DeclaresNamed(c, s.name))
        => \A ord \in IterOrders(cur) :
              LET r == resolve_fqn(cur, MemberFqnOn(c, s), ord)
              IN  /\ IsSome(r)
                  /\ Unwrap(r).name = s.name
                  /\ Unwrap(r).kind = s.kind
                  /\ Unwrap(Unwrap(r).parent_fqn) \in Ancestors(c)

(* The parent edges of the class graph: an entry of the walk that passes   *)
(* the visited check makes one call per parent of its class, and no class  *)
(* passes the check twice.                                                 *)
RECURSIVE SumOver(_, _)
SumOver(S, f) ==
    IF S = {} THEN 0
    ELSE LET x == CHOOSE y \in S : TRUE IN f[x] + SumOver(S \ {x}, f)

ParentEdges ==
    SumOver(DOMAIN types,
            [c \in DOMAIN types |-> Len(types[c].extends) + Len(types[c].implements)])

NoDuplicates(s) == \A i, j \in 1..Len(s) : s[i] = s[j] => i = j

(* C8: on any class graph, cyclic ones included, the walk of               *)
(* resolve_member ends: a running call always has a next step, it visits   *)
(* no class twice, it enters resolve_member_in_hierarchy at most once per  *)
(* parent edge (and once for the query), its stack is never deeper than    *)
(* the classes visited plus one; and a finished call for "A::nonexistent"  *)
(* has returned None.                                                      *)
C8_ResolveMemberTerminates ==
    /\ rm_pc = "running" => ENABLED ResolveStep
    /\ NoDuplicates(rm_visited)
    /\ rm_calls <= 1 + ParentEdges
    /\ Len(rm_stack) <= Len(rm_visited) + 1
    /\ (rm_pc = "done" /\ rsplit_once(rm_query) # None
            /\ Unwrap(rsplit_once(rm_query))[2] = NoSuchMember) => rm_ret = None

(* C8 witness: a call for "A::nonexistent" has finished with None after    *)
(* the visited check stopped it from walking a cycle again.                *)
C8_Witness ==
    /\ rm_pc = "done"
    /\ rm_revisit
    /\ rsplit_once(rm_query) # None
    /\ Unwrap(rsplit_once(rm_query))[2] = NoSuchMember
    /\ rm_ret = None
    /\ \E c \in DOMAIN types : c \in Ancestors(c)

(* The step machine and the operator resolve_fqn compute the same answer *)
ResolveAgrees ==
    rm_pc = "done" => rm_ret = resolve_fqn(cur, rm_query, rm_ord)

(* Position of a member in the Vec get_members returned *)
IndexOf(seq, x) == CHOOSE i \in 1..Len(seq) : seq[i] = x

(* C10: get_members(T) holds the members of T and of every type reachable  *)
(* from T through extends / implements, and whenever two of them have the  *)
(* same name and the type of one derives from the type of the other (and   *)
(* not the reverse), the more-derived type's member comes first.           *)
C10_MostDerivedFirst ==
    IsSome(gm_type) =>
        LET t    == Unwrap(gm_type)
            got  == Range(gm_members)
            lin  == {t} \cup Ancestors(t)
        IN  /\ got = {s \in StoredSymbols : s.parent_fqn # None /\ Unwrap(s.parent_fqn) \in lin}
            /\ \A x, y \in got :
                  (/\ x.name = y.name
                   /\ Unwrap(y.parent_fqn) \in Ancestors(Unwrap(x.parent_fqn))
                   /\ Unwrap(x.parent_fqn) \notin Ancestors(Unwrap(y.parent_fqn)))
                  => IndexOf(gm_members, x) < IndexOf(gm_members, y)

(* C6: after any sequence of apply_edit calls that follows a parse_full,   *)
(* every call has completed, the buffer is the text the same edits give    *)
(* when replayed on a fresh rope, and the tree is the full parse of it.    *)
C6_EditsMatchReplay ==
    last_edit.op = "apply_edit" =>
        /\ ~panicked
        /\ rope = replay
        /\ tree = Parsed(replay, TRUE)

(* C7: whatever the positions given to apply_edit, both offsets it         *)
(* computes lie in [0, byte length], a line beyond the last line gives the *)
(* byte length, and the call completes without a panic.                    *)
C7_EditNeverPanics ==
    last_edit.op = "apply_edit" =>
        /\ last_edit.start_byte \in 0..last_edit.len_bytes
        /\ last_edit.old_end_byte \in 0..last_edit.len_bytes
        /\ last_edit.start_beyond => last_edit.start_byte = last_edit.len_bytes
        /\ last_edit.end_beyond => last_edit.old_end_byte = last_edit.len_bytes
        /\ ~panicked

(* The offsets alone: position_to_byte stays within the buffer *)
OffsetsWithinBuffer ==
    last_edit.op = "apply_edit" =>
        /\ last_edit.start_byte \in 0..last_edit.len_bytes
        /\ last_edit.old_end_byte \in 0..last_edit.len_bytes
        /\ last_edit.start_beyond => last_edit.start_byte = last_edit.len_bytes
        /\ last_edit.end_beyond => last_edit.old_end_byte = last_edit.len_bytes

(* C4: every diagnostics publication for the open document was computed    *)
(* from a digest of the document at least as new as the text the parser    *)
(* held (the most recently applied edit), never from an older one such as  *)
(* the digest of the file on disk.                                         *)
C4_PublicationIsFresh ==
    (IsSome(last_pub) /\ Unwrap(last_pub).open) =>
        /\ IsSome(Unwrap(last_pub).digest)
        /\ Unwrap(Unwrap(last_pub).digest) >= Unwrap(last_pub).text

IsPrefix(s, t) == Len(s) <= Len(t) /\ s = SubSeq(t, 1, Len(s))

(* C5: a did_change that finds the document open goes through apply,       *)
(* re-digest, index update and publish in that order; the digest it puts   *)
(* in the index is the digest of the buffer with all its edits applied,    *)
(* and its diagnostics are computed only after its index update.           *)
C5_ChangeStepsInOrder ==
    \A h \in Handlers :
        (handlers[h].kind = "did_change" /\ handlers[h].found_open) =>
            /\ IsPrefix(handlers[h].log, did_change_steps)
            /\ IsSome(handlers[h].digest) =>
                  Unwrap(handlers[h].digest).version = handlers[h].version
            /\ IsSome(handlers[h].diagnostics) => Contains(handlers[h].log, "update")

(* C5 witness: two did_change handlers in flight, one of which has         *)
(* published after all its steps while the scan was running.               *)
C5_Witness ==
    \E h, k \in Handlers :
        /\ h # k
        /\ handlers[h].kind = "did_change"
        /\ handlers[h].found_open
        /\ handlers[h].log = did_change_steps
        /\ handlers[k].kind = "did_change"
        /\ handlers[k].log # <<>>
        /\ scan \in {"scanning", "republish"}

Quiescent == \A h \in Handlers : handlers[h].kind = "none"

(* C11: once the handlers have returned, the document has a parser in      *)
(* open_files exactly when the editor has it open (after did_open, until   *)
(* did_close); and the step of did_close that removes the parser leaves    *)
(* the document's digest and the FQN maps of the index as they were.       *)
C11_ParserExactlyWhileOpen ==
    [][/\ Quiescent' => ((Document \in DOMAIN open_files') <=> (editor' = "open"))
       /\ \A h \in Handlers :
             DidCloseRemove(h) =>
                /\ Document \notin DOMAIN open_files'
                /\ UNCHANGED <<types, functions, constants, file_symbols>>]_vars

(* C12: once the server has answered the shutdown request and the scan has *)
(* gone through a suspension point, the scan processes no further file.    *)
C12_ScanStopsAfterShutdown ==
    [][(shutdown_requested /\ yielded) => indexed' = indexed]_vars

(* files between semaphore.acquire() and the end of the loop body *)
InFlight == IF scan_pc \in {"holding", "report", "reported"} THEN 1 ELSE 0

(* C14: at every moment of the scan at most 4 files are being read and     *)
(* parsed, and every permit that is not held by a file in flight is back   *)
(* in the semaphore.                                                       *)
C14_BoundedByPermits ==
    scan_pc # "not_spawned" =>
        /\ InFlight <= SemaphorePermits
        /\ permits >= 0
        /\ permits + InFlight = SemaphorePermits

(* C14 witness: a file is being parsed under a permit after more files     *)
(* than there are permits have been processed.                             *)
C14_Witness ==
    /\ scan_pc = "holding"
    /\ permits = SemaphorePermits - 1
    /\ indexed > SemaphorePermits

----------------------------------------------------------------------------
(* C13: a references request that the editor cancelled while files were    *)
(* left to visit is answered with the request-cancelled error.             *)
C13_CancelledAtBoundary ==
    (reply.op = "references" /\ reply.cancelled) => reply.status = "cancelled"

----------------------------------------------------------------------------
(* C15: a rename on a symbol of any kind whose new name is not a valid     *)
(* identifier is answered with invalid-params and carries no edits.        *)
C15_InvalidNameRejected ==
    (/\ reply.op = "rename"
     /\ UnderCursor # None
     /\ ~valid_new_name(Unwrap(UnderCursor).ref_kind, reply.new_name))
    => (reply.status = "invalid_params" /\ reply.edits = <<>>)

----------------------------------------------------------------------------
(* the symbol under the cursor resolves, directly or through the short     *)
(* name, to a symbol of the stub file                                      *)
TargetIsStub ==
    /\ UnderCursor # None
    /\ Unwrap(UnderCursor).ref_kind # "Variable"
    /\ \E ord \in IterOrders(cur) :
          LET resolved == resolve_fqn_with_fallback(cur, Unwrap(UnderCursor).fqn,
                                                    Unwrap(UnderCursor).ref_kind, ord)
          IN  IsSome(resolved) /\ Unwrap(resolved).uri = StubUri

(* C16: a rename whose target resolves, directly or through the global     *)
(* short-name fallback, to a stub symbol is answered with invalid-params   *)
(* and no edits, and prepareRename on it answers null.                     *)
C16_StubNeverRenamed ==
    TargetIsStub =>
        /\ reply.op = "rename" => (reply.status = "invalid_params" /\ reply.edits = <<>>)
        /\ reply.op = "prepare_rename" => reply.status = "null"

(* a rename to a valid name, from a namespace, of a call that falls back   *)
(* to the stub's function has been rejected                                *)
C16_Witness ==
    /\ TargetIsStub
    /\ reply.op = "rename"
    /\ reply.status = "invalid_params"
    /\ valid_identifier(reply.new_name)
    /\ Contains(Unwrap(UnderCursor).fqn, "\\")

----------------------------------------------------------------------------
HasSyntaxError(text) == \E i \in 1..Len(text.nodes) : text.nodes[i].node \in {"ERROR", "MISSING"}

(* C17: a published list never mixes syntax and semantic diagnostics, and  *)
(* the list published for a text whose tree has an ERROR or MISSING node   *)
(* holds syntax diagnostics only.                                          *)
C17_NoMixedPublication ==
    last_pub # None =>
        LET published == Unwrap(last_pub).diagnostics
        IN  /\ ~(/\ \E i \in 1..Len(published) : published[i].class = "syntax"
                 /\ \E i \in 1..Len(published) : published[i].class = "semantic")
            /\ (Document \in DOMAIN open_files /\ HasSyntaxError(open_files[Document]))
               => \A i \in 1..Len(published) : published[i].class = "syntax"

(* a text that does not parse and names a class the index does not know    *)
(* has been published with its syntax diagnostics alone                    *)
C17_Witness ==
    /\ Document \in DOMAIN open_files
    /\ HasSyntaxError(open_files[Document])
    /\ \E ord \in IterOrders(cur) :
          extract_semantic_diagnostics(open_files[Document], file_symbols[Document],
                                       cur, ord) # <<>>
    /\ last_pub # None
    /\ Unwrap(last_pub).diagnostics # <<>>
    /\ \A i \in 1..Len(Unwrap(last_pub).diagnostics) :
          Unwrap(last_pub).diagnostics[i].class = "syntax"

----------------------------------------------------------------------------
(* C18: for every target of the open document, find_references_in_file     *)
(* with include_declaration returns what it returns without, and besides   *)
(* that exactly the positions where the file declares the target.          *)
C18_DeclarationIsTheDifference ==
    Document \in DOMAIN open_files =>
        \A cursor \in Cursors : \A ord \in IterOrders(cur) :
            LET text == open_files[Document]
                fs   == file_symbols[Document]
                sym_ == symbol_at_position(text, cursor, extract_text_symbols(text, Document))
            IN  (sym_ # None /\ Unwrap(sym_).ref_kind # "Variable") =>
                  LET target  == target_of(cur, Unwrap(sym_), ord)
                      with    == Range(find_references_in_file(text, fs, target.fqn,
                                                               target.kind, TRUE))
                      without == Range(find_references_in_file(text, fs, target.fqn,
                                                               target.kind, FALSE))
                      decls   == {fs.symbols[i].line : i \in
                                    {j \in 1..Len(fs.symbols) :
                                        fs.symbols[j].fqn = target.fqn}}
                  IN  without \subseteq with /\ with \ without = decls

----------------------------------------------------------------------------
(* C19: after the edits of a rename of an indexed symbol to a valid name   *)
(* are applied and the files indexed again, the index holds at the same    *)
(* place a symbol equal to the old one but for name and FQN, and its       *)
(* references are the sites the references of the old one were.            *)
C19_RenameRoundTrip ==
    (applied # None /\ Unwrap(applied).symbol # None) =>
        LET a   == Unwrap(applied)
            s   == Unwrap(a.symbol)
            n   == IF s.kind = "Property" THEN strip_prefix(a.new_name, "$") ELSE a.new_name
            now == IF s.uri \in DOMAIN file_symbols THEN file_symbols[s.uri].symbols ELSE <<>>
        IN  \E i \in 1..Len(now) :
               /\ now[i].name = n
               /\ [now[i] EXCEPT !.name = s.name, !.fqn = s.fqn] = s
               /\ \A ord \in IterOrders(cur) :
                     Range(references_loop(cur, open_files, disk, ord, now[i].fqn,
                                           now[i].kind, TRUE)) = a.before

----------------------------------------------------------------------------
(* C20: a rename of a declared property from a `->name` usage to a valid   *)
(* name carries one edit per site: `$` and the new name at the declaration *)
(* of the property, the new name alone at each `->name` usage.             *)
C20_PropertyRenameEdits ==
    (/\ reply.op = "rename"
     /\ UnderCursor # None
     /\ Unwrap(UnderCursor).ref_kind = "PropertyAccess"
     /\ \E i \in 1..Len(open_files[Document].nodes) :
           open_files[Document].nodes[i].node = "property_element"
     /\ valid_identifier(strip_prefix(reply.new_name, "$")))
    => LET text   == open_files[Document]
           name   == Unwrap(UnderCursor).name
           n      == strip_prefix(reply.new_name, "$")
           decls  == {i \in 1..Len(text.nodes) :
                         /\ text.nodes[i].node = "property_element"
                         /\ text.nodes[i].text = <<"$">> \o name}
           usages == {i \in 1..Len(text.nodes) :
                         /\ text.nodes[i].node = "member_access_expression"
                         /\ text.nodes[i].text = name}
           at(i)  == {j \in 1..Len(reply.edits) :
                         reply.edits[j].uri = Document /\ reply.edits[j].line = i}
       IN  /\ reply.status = "ok"
           /\ Len(reply.edits) = Cardinality(decls) + Cardinality(usages)
           /\ \A i \in decls : \E j \in at(i) : reply.edits[j].new_text = <<"$">> \o n
           /\ \A i \in usages : \E j \in at(i) : reply.edits[j].new_text = n

----------------------------------------------------------------------------
(* C21: references on an unqualified call f() in a namespaced file, whose  *)
(* target is the global function f, reports that call among the            *)
(* references to f.                                                        *)
C21_GlobalFunctionFromNamespace ==
    (/\ reply.op = "references"
     /\ UnderCursor # None
     /\ Unwrap(UnderCursor).ref_kind = "FunctionCall"
     /\ open_files[Document].nodes[reply.cursor].node = "function_call_expression"
     /\ IsSome(open_files[Document].namespace)
     /\ \E ord \in IterOrders(cur) :
           LET target == target_of(cur, Unwrap(UnderCursor), ord)
           IN  /\ target.kind = "Function"
               /\ ~Contains(target.fqn, "\\")
               /\ IsSome(resolve_fqn(cur, target.fqn, ord)))
    => \E i \in 1..Len(reply.locations) :
          reply.locations[i] = [uri |-> Document, line |-> reply.cursor]

(* C22: with a namespace map that has PSR-4 entries only, the paths of    *)
(* resolve_class_to_paths(fqn) are exactly, for each prefix that is a     *)
(* strict prefix of fqn and each of its directories, the path             *)
(* directory/(tail with `\` replaced by `/`).php; a prefix that is not a  *)
(* strict prefix of fqn contributes nothing.                              *)
C22_StrictPrefixPaths ==
    (/\ lazy.fqn # <<>>
     /\ namespace_map # None
     /\ Unwrap(namespace_map).psr0 = <<>>)
    => LET psr4      == Unwrap(namespace_map).psr4
           strict(e) == /\ Len(psr4[e].prefix) < Len(lazy.fqn)
                        /\ SubSeq(lazy.fqn, 1, Len(psr4[e].prefix)) = psr4[e].prefix
           tail(e)   == SubSeq(lazy.fqn, Len(psr4[e].prefix) + 1, Len(lazy.fqn))
           below(e, d) ==
               [absolute |-> is_absolute(psr4[e].dirs[d]),
                names |-> components(psr4[e].dirs[d], <<>>, <<>>)
                          \o components(replace_with_slash(tail(e), {"\\"}) \o <<".php">>,
                                        <<>>, <<>>)]
           expected  == {<<e, d>> \in (1..Len(psr4)) \X (1..2) :
                            d <= Len(psr4[e].dirs) /\ strict(e)}
       IN  /\ Len(lazy.paths) = Cardinality(expected)
           /\ \A i \in 1..Len(lazy.paths) :
                 \E x \in expected : canonical(lazy.paths[i]) = below(x[1], x[2])
           /\ \A x \in expected :
                 \E i \in 1..Len(lazy.paths) : canonical(lazy.paths[i]) = below(x[1], x[2])

(* C23: on an index miss for q, with a namespace map and a root, every   *)
(* candidate file that exists (a Composer-derived path or a path derived  *)
(* from vendor installed.json, for the class of q) is indexed; and if one *)
(* of them declares q, the call returns the symbol of q and q afterwards  *)
(* resolves directly from the index.                                      *)
C23_LazyFindsDeclaringCandidate ==
    (/\ lazy.missed
     /\ namespace_map # None)
    => LET q          == lazy.fqn
           class_of_q == IF Contains(q, "::")
                         THEN SubSeq(q, 1, (CHOOSE i \in 1..Len(q) : q[i] = "::") - 1)
                         ELSE q
           installed  == IF filesystem.vendor # None /\ Unwrap(filesystem.vendor).autoload_psr4
                         THEN resolve_vendor_paths(class_of_q, join(Root, <<"vendor">>),
                                                   Unwrap(filesystem.vendor).installed)
                         ELSE None
           candidates == resolve_class_to_paths(Unwrap(namespace_map), class_of_q)
                         \o (IF installed = None THEN <<>> ELSE Unwrap(installed))
           abs(i)     == IF is_absolute(candidates[i]) THEN candidates[i]
                         ELSE join(Root, candidates[i])
           found      == {i \in 1..Len(candidates) : exists(filesystem.files, abs(i))}
           declares(i) ==
               LET digest == extract_text_symbols(read_to_string(filesystem.files, abs(i)),
                                                  path_to_uri(abs(i)))
               IN  \E k \in 1..Len(digest.symbols) : digest.symbols[k].fqn = q
       IN  /\ \A i \in found : path_to_uri(abs(i)) \in DOMAIN file_symbols
           /\ (\E i \in found : declares(i))
              => /\ lazy.ret # None
                 /\ Unwrap(lazy.ret).fqn = q
                 /\ \A ord \in IterOrders(cur) : resolve_fqn(cur, q, ord) = lazy.ret

(* C24: once both update_file calls for the URI have returned, the types, *)
(* functions and constants maps hold exactly the symbols of the digest    *)
(* stored for the URI: nothing of the other call's digest is left.        *)
C24_MapsAreStoredDigest ==
    (\A t \in Callers : updating[t].pc = "returned")
    => /\ Document \in DOMAIN file_symbols
       /\ LET projection == insert_symbols(new, file_symbols[Document].symbols)
          IN  /\ types = projection.types
              /\ functions = projection.functions
              /\ constants = projection.constants

(* C25: while the editor has the document open, every did_change that    *)
(* has gone past its lookup in open_files found the parser there, so its  *)
(* edits were applied: none is dropped because the did_open sent before   *)
(* it has not yet inserted the parser.                                    *)
C25_NoChangeDropped ==
    \A h \in Handlers :
        (/\ handlers[h].kind = "did_change"
         /\ handlers[h].pc # "start"
         /\ editor = "open")
        => handlers[h].found_open

(* C26: no interleaving blocks for ever: a handler the server task has   *)
(* started returns or is suspended and later resumed, and the spawned     *)
(* task gets through its re-publication of the diagnostics.               *)
C26_GuardsNeverDeadlock ==
    /\ (server_thread.at # "poll") ~> (server_thread.at = "poll")
    /\ (suspended # {}) ~> (suspended = {})
    /\ (scan = "republish") ~> (scan = "done")

(* C27: the locations find_references_in_file reports for the method     *)
(* Owner::m are the declaration of Owner::m and accesses whose receiver   *)
(* is Owner: the class of the object left of `->`, the class a scope      *)
(* names, or the enclosing class for self and static. An access to m on   *)
(* an unrelated class is not among them.                                  *)
C27_OnlyOwnersAccessSites ==
    evaluated.op = "find_references_in_file" =>
        LET text      == evaluated.text
            file_syms == extract_text_symbols(text, Document)
            owner     == Unwrap(rsplit_once(evaluated.target_fqn))[1]
            receiver(i) ==
                LET n == text.nodes[i]
                IN  IF n.node = "member_call_expression" THEN Some(n.object)
                    ELSE IF n.node # "scoped_call_expression" THEN None
                    ELSE IF n.scope \in {<<"self">>, <<"static">>}
                    THEN find_parent_class_fqn(text, i, file_syms)
                    ELSE Some(resolve_class_name(n.scope, file_syms))
        IN  \A k \in 1..Len(evaluated.result) :
               LET i == evaluated.result[k]
               IN  \/ /\ text.nodes[i].node = "method_declaration"
                      /\ find_parent_class_fqn(text, i, file_syms) = Some(owner)
                   \/ receiver(i) = Some(owner)

(* C28: for a name and a file context in which no use alias matches (the *)
(* name or its first part), resolve_constant_name and                     *)
(* resolve_function_name give the same FQN, and a name that is already    *)
(* qualified (Sub\NAME) is returned unchanged by both.                    *)
C28_ConstantResolvesAsFunction ==
    (/\ evaluated.op = "resolve_name"
     /\ \A i \in 1..Len(evaluated.file_syms.imports) :
           alias_of(evaluated.file_syms.imports[i])
              \notin {evaluated.name, first_part(evaluated.name)})
    => /\ evaluated.constant_fqn = evaluated.function_fqn
       /\ (Contains(evaluated.name, "\\") /\ Head(evaluated.name) # "\\")
          => /\ evaluated.function_fqn = evaluated.name
             /\ evaluated.constant_fqn = evaluated.name

(* C29: among the statements of the scope that come before the usage of  *)
(* $x (those of an enclosing block included), the last one that binds $x, *)
(* by an assignment or by an @var, decides: when it gives a class, that   *)
(* class is the type inferred for `$x->member`.                           *)
C29_LastBindingWins ==
    evaluated.op = "infer_variable_type" =>
        LET body      == evaluated.body
            last      == body[Len(body)]
            flat      == SubSeq(body, 1, Len(body) - 1)
                         \o (IF last.stmt = "if_statement"
                             THEN SubSeq(last.body, 1, Len(last.body) - 1) ELSE <<>>)
            file_syms == [symbols |-> <<>>, namespace |-> None, use_statements |-> <<>>]
            rhs(i)    == assignment_rhs_for_var(flat[i], <<"x">>)
            doc(i)    == extract_preceding_phpdoc_var_type(flat[i], <<"x">>, IsSome(rhs(i)),
                                                           file_syms)
            binds     == {i \in 1..Len(flat) : IsSome(rhs(i)) \/ IsSome(doc(i))}
            bound(i)  == IF IsSome(doc(i)) THEN doc(i)
                         ELSE try_resolve_object_type(Unwrap(rhs(i)), file_syms)
        IN  \A i \in binds :
               ((\A j \in binds : j <= i) /\ IsSome(bound(i)))
               => evaluated.inferred = bound(i)

(* C30: the doc_comment of a declaration is the text of a PHPDoc comment  *)
(* that precedes it with no named sibling in between; with a declaration  *)
(* (or any named node) between the PHPDoc and the declaration, the        *)
(* declaration gets no doc_comment from it.                               *)
C30_DocCommentIsAdjacent ==
    (evaluated.op = "find_doc_comment" /\ IsSome(evaluated.doc_comment))
    => LET siblings == evaluated.siblings
           i        == Len(siblings)
       IN  \E j \in 1..(i - 1) :
              /\ siblings[j].node = "comment"
              /\ siblings[j].text = Unwrap(evaluated.doc_comment)
              /\ starts_with_doc(siblings[j].text)
              /\ \A k \in (j + 1)..(i - 1) : ~siblings[k].named

====
